---------------------------- MODULE Spec2Model ----------------------------
(***************************************************************************)
(* Model of the contact-manager bot's query pipeline                       *)
(* (src/bot/ai_interface.py): the query classifier _analyze_query, the     *)
(* store search _fetch_filtered_contacts, the context builder              *)
(* _prepare_context and the orchestration process_query.                   *)
(*                                                                         *)
(* Text is modelled character by character: a string is a sequence of      *)
(* Unicode code points (32 is the space, 1074 the Cyrillic letter "ve",    *)
(* 1080 1079 the word "iz"), so that the regular expressions, lower(),     *)
(* strip() and the substring tests of the code are computed as the code    *)
(* computes them.  Cyrillic words are named by their transliteration.      *)
(***************************************************************************)
EXTENDS Integers, Sequences, FiniteSets, TLC

VARIABLES
    qwords,     \* the words the user typed, in order (the input's structure)
    qseps,      \* the separators typed between consecutive words
    query,      \* user_query: the text handed to process_query / _analyze_query
    pc,         \* position of the request inside process_query
    intent,     \* query_analysis: the dict returned by _analyze_query
    contacts,   \* rows of the contact_summary view, in creation order (oldest first)
    records,    \* contacts_data: what _fetch_filtered_contacts returned
    storeFailed,\* whether the store call of this request raised
    prompt,     \* the prompt built for the generation call
    generated,  \* response.text of the generation call
    genCalls,   \* number of model.generate_content invocations of this request
    failure,    \* the exception caught by process_query's except clause, if any
    result,     \* the string process_query returned
    limit,      \* the max_contacts argument of the _prepare_context call
    contextOut, \* context: the text _prepare_context returned
    steps,      \* the steps of the request that have run, in order of execution
    reqs,       \* the requests running side by side: for each, its argument,
                \* its position and its local variables; in the dispatch
                \* specification, the update being processed
    user_data,  \* context.user_data of the one admin user: the set of the values
                \* it keeps under 'pending_note_contact_id', empty when the key
                \* is not set
    interactions, \* rows of the interactions table, in insertion order
    handled,    \* what an update set off, in order: the handler run for it
                \* and the calls it made
    imports     \* the last call of batch_insert_contacts: its argument, whether
                \* a store call raised, and the counts it returned

vars == <<qwords, qseps, query, pc, intent, contacts, records, storeFailed,
          prompt, generated, genCalls, failure, result, limit, contextOut,
          steps, reqs, user_data, interactions, handled, imports>>

\* the state of the bot beyond the contacts table and the pending-note marker
botVars == <<interactions, handled, imports>>

\* Python's None where a string is expected (no text holds the code point -1),
\* and None where a list of strings is expected
Null == <<-1>>
NullList == <<Null>>

-----------------------------------------------------------------------------
(* Bounds of the model *)

\* number of words in a query handed to the classifier alone
MaxWords == 3
\* number of words in a query run through the whole pipeline
MaxPipelineWords == 2
\* number of rows in the contact store
MaxContacts == 2

-----------------------------------------------------------------------------
(* Characters and strings *)

Min(S) == CHOOSE x \in S : \A y \in S : x <= y
Max(S) == CHOOSE x \in S : \A y \in S : x >= y

\* str.isspace / the regex class \s
IsSpace(c) == c \in {9, 10, 11, 12, 13, 28, 29, 30, 31, 32, 133, 160}

IsLatinUpper(c) == c >= 65 /\ c <= 90
IsLatinLower(c) == c >= 97 /\ c <= 122
\* A-YA (1040..1071) and IO (1025); a-ya (1072..1103) and io (1105)
IsCyrUpper(c) == (c >= 1040 /\ c <= 1071) \/ c = 1025
IsCyrLower(c) == (c >= 1072 /\ c <= 1103) \/ c = 1105
IsDigit(c) == c >= 48 /\ c <= 57

\* w[0].isupper()
IsUpper(c) == IsLatinUpper(c) \/ IsCyrUpper(c)

\* the token class [A-YAIOa-yaioA-Za-z] of re.findall
IsLetter(c) == IsLatinUpper(c) \/ IsLatinLower(c) \/ IsCyrUpper(c) \/ IsCyrLower(c)

\* the class [A-YAIOa-yaio\w] of the second company pattern
IsWordChar(c) == IsLetter(c) \/ IsDigit(c) \/ c = 95

\* the class [A-YAIOa-yaio\w\s] of the first company pattern
IsCompanyChar(c) == IsWordChar(c) \/ IsSpace(c)

\* str.lower() on one character
LowerChar(c) ==
    IF IsLatinUpper(c) THEN c + 32
    ELSE IF c = 1025 THEN 1105
    ELSE IF IsCyrUpper(c) THEN c + 32
    ELSE c

\* str.lower()
Lower(s) == [i \in 1..Len(s) |-> LowerChar(s[i])]

\* str.strip()
Strip(s) ==
    LET keep == {i \in 1..Len(s) : ~IsSpace(s[i])}
    IN  IF keep = {} THEN <<>> ELSE SubSeq(s, Min(keep), Max(keep))

\* s[i:].startswith(p)
HasAt(s, i, p) ==
    /\ i >= 1
    /\ i + Len(p) - 1 <= Len(s)
    /\ SubSeq(s, i, i + Len(p) - 1) = p

\* p in s
Contains(s, p) == \E i \in 1..(Len(s) - Len(p) + 1) : HasAt(s, i, p)

\* end (exclusive) of the greedy run that starts at i, inClass[j] telling
\* whether character j belongs to the class repeated
RunEnd(inClass, i) ==
    Min({j \in i..(Len(inClass) + 1) : j = Len(inClass) + 1 \/ ~inClass[j]})

\* \s+ , [A-YAIOa-yaio\w]+ , [A-YAIOa-yaio\w\s]+ and [A-YAIOa-yaioA-Za-z]+ from i
SpaceRunEnd(s, i) == RunEnd([j \in 1..Len(s) |-> IsSpace(s[j])], i)
WordRunEnd(s, i) == RunEnd([j \in 1..Len(s) |-> IsWordChar(s[j])], i)
CompanyRunEnd(s, i) == RunEnd([j \in 1..Len(s) |-> IsCompanyChar(s[j])], i)
LetterRunEnd(s, i) == RunEnd([j \in 1..Len(s) |-> IsLetter(s[j])], i)

-----------------------------------------------------------------------------
(* The words of the code *)

W_iz        == <<1080, 1079>>
W_v         == <<1074>>
W_kompaniya == <<1082, 1086, 1084, 1087, 1072, 1085, 1080, 1103>>

\* position_keywords, in the order of the list
PositionKeywords == <<
    <<1090, 1077, 1089, 1090, 1080, 1088, 1086, 1074, 1097, 1080, 1082>>, \* testirovshchik
    <<1088, 1072, 1079, 1088, 1072, 1073, 1086, 1090, 1095, 1080, 1082>>, \* razrabotchik
    <<1084, 1077, 1085, 1077, 1076, 1078, 1077, 1088>>,                   \* menedzher
    <<1076, 1080, 1079, 1072, 1081, 1085, 1077, 1088>>,                   \* dizayner
    <<1084, 1072, 1088, 1082, 1077, 1090, 1086, 1083, 1086, 1075>>,       \* marketolog
    <<104, 114>> >>                                                       \* hr

\* the alternatives of the ending pattern (ov|am|ami|akh|a|u|om|e|i)$
Endings == {
    <<1086, 1074>>, <<1072, 1084>>, <<1072, 1084, 1080>>, <<1072, 1093>>,
    <<1072>>, <<1091>>, <<1086, 1084>>, <<1077>>, <<1080>> }

\* stop_words
StopWords == {
    <<1085, 1072, 1081, 1076, 1080>>,             \* naydi
    <<1085, 1072, 1081, 1076>>,                   \* nayd
    <<1087, 1086, 1082, 1072, 1078, 1080>>,       \* pokazhi
    <<1087, 1086, 1082, 1072, 1078>>,             \* pokazh
    <<1082, 1090, 1086>>,                         \* kto
    <<1084, 1085, 1077>>,                         \* mne
    <<1085, 1091, 1078, 1077, 1085>>,             \* nuzhen
    <<1085, 1091, 1078, 1085, 1072>>,             \* nuzhna
    <<1085, 1091, 1078, 1085, 1099>>,             \* nuzhny
    <<1074, 1089, 1077>>,                         \* vse
    <<1074, 1089, 1077, 1093>>,                   \* vsekh
    <<1095, 1077, 1083, 1086, 1074, 1077, 1082>>, \* chelovek
    <<1083, 1102, 1076, 1077, 1081>>,             \* lyudey
    <<1082, 1086, 1085, 1090, 1072, 1082, 1090>>, \* kontakt
    <<1082, 1086, 1085, 1090, 1072, 1082, 1090, 1099>>, \* kontakty
    <<1077, 1089, 1090, 1100>>,                   \* est'
    <<1091>>,                                     \* u
    <<1084, 1077, 1085, 1103>>,                   \* menya
    <<1080, 1079>>,                               \* iz
    <<1074>>,                                     \* v
    <<1089>>,                                     \* s
    <<1085, 1072>>,                               \* na
    <<1087, 1086>>,                               \* po
    <<1076, 1083, 1103>>,                         \* dlya
    <<1080, 1083, 1080>>,                         \* ili
    <<1080>>,                                     \* i
    <<1072>>,                                     \* a
    <<1085, 1086>> }                              \* no

-----------------------------------------------------------------------------
(* _analyze_query *)

NoMatch == [ok |-> FALSE, group |-> <<>>]
Match(g) == [ok |-> TRUE, group |-> g]

\* (?:iz|v) at position i: the position after the marker, 0 if there is none
MarkerEndAt(s, i) ==
    IF HasAt(s, i, W_iz) THEN i + 2
    ELSE IF HasAt(s, i, W_v) THEN i + 1
    ELSE 0

\* (?:iz|v)\s+([A-YAIOa-yaio\w\s]+) tried at position i.  \s+ is greedy and
\* takes the whole run of whitespace; the group then needs one character of
\* its class.  When the run is followed by no such character the matcher
\* backtracks: \s+ gives its last whitespace character to the group.
MarkerPatternAt(s, i) ==
    LET j == MarkerEndAt(s, i)
    IN  IF j = 0 THEN NoMatch
        ELSE LET e == SpaceRunEnd(s, j)
             IN  IF e = j THEN NoMatch
                 ELSE IF e <= Len(s) /\ IsCompanyChar(s[e])
                      THEN Match(SubSeq(s, e, CompanyRunEnd(s, e) - 1))
                 ELSE IF e - j >= 2 THEN Match(SubSeq(s, e - 1, e - 1))
                 ELSE NoMatch

\* ([A-YAIOa-yaio\w]+)\s+kompaniya tried at position i
CompanyWordPatternAt(s, i) ==
    IF ~IsWordChar(s[i]) THEN NoMatch
    ELSE LET e == WordRunEnd(s, i)
             f == SpaceRunEnd(s, e)
         IN  IF f > e /\ HasAt(s, f, W_kompaniya)
             THEN Match(SubSeq(s, i, e - 1))
             ELSE NoMatch

\* re.search: the match at the leftmost position where the pattern matches
MarkerSearch(s) ==
    LET hits == {i \in 1..Len(s) : MarkerPatternAt(s, i).ok}
    IN  IF hits = {} THEN NoMatch ELSE MarkerPatternAt(s, Min(hits))

CompanyWordSearch(s) ==
    LET hits == {i \in 1..Len(s) : CompanyWordPatternAt(s, i).ok}
    IN  IF hits = {} THEN NoMatch ELSE CompanyWordPatternAt(s, Min(hits))

\* the loop over company_patterns: the first pattern that matches decides
CompanyMatch(s) ==
    LET m1 == MarkerSearch(s)
    IN  IF m1.ok THEN m1 ELSE CompanyWordSearch(s)

\* re.sub(r'(ov|am|ami|akh|a|u|om|e|i)$', '', keyword): the leftmost position
\* from which the rest of the keyword is one of the endings is cut off
StripEnding(keyword) ==
    LET cuts == {i \in 1..Len(keyword) : SubSeq(keyword, i, Len(keyword)) \in Endings}
    IN  IF cuts = {} THEN keyword ELSE SubSeq(keyword, 1, Min(cuts) - 1)

\* indices of the position keywords contained in the lowercased query
KeywordHits(query_lower) ==
    {k \in 1..Len(PositionKeywords) : Contains(query_lower, PositionKeywords[k])}

\* re.findall(r'[A-YAIOa-yaioA-Za-z]+', s): the maximal runs of letters
RECURSIVE FindAllFrom(_, _)
FindAllFrom(s, i) ==
    IF i > Len(s) THEN <<>>
    ELSE IF IsLetter(s[i])
         THEN LET e == LetterRunEnd(s, i)
              IN  <<SubSeq(s, i, e - 1)>> \o FindAllFrom(s, e)
         ELSE FindAllFrom(s, i + 1)

FindAllWords(s) == FindAllFrom(s, 1)

\* SearchTerms without the stop-word test
SearchTermsNoStop(ws) == SelectSeq(ws, LAMBDA w : Len(w) > 1)

\* [w for w in words if w.lower() not in stop_words and len(w) > 1]
SearchTerms(ws) == SelectSeq(ws, LAMBDA w : Lower(w) \notin StopWords /\ Len(w) > 1)

\* [w for w in search_terms if w[0].isupper()]
Capitalized(terms) == SelectSeq(terms, LAMBDA w : IsUpper(w[1]))

Intent(t, f) == [type |-> t, filter |-> f]

\* AnalyzeAfterCompany with the fall-through typed 'ai_search'
AnalyzeAfterCompanyAiSearch(q) ==
    LET query_lower == Strip(Lower(q))
        search_terms == SearchTerms(FindAllWords(Strip(q)))
        capitalized == Capitalized(search_terms)
        hits == KeywordHits(query_lower)
    IN  IF hits # {}
        THEN Intent("position_search", StripEnding(PositionKeywords[Min(hits)]))
        ELSE IF search_terms # <<>>
             THEN IF capitalized # <<>>
                  THEN Intent("name_search", capitalized)
                  ELSE Intent("name_search", search_terms)
             ELSE Intent("ai_search", q)

\* the steps of _analyze_query after the company patterns
AnalyzeAfterCompany(q) ==
    LET query_lower == Strip(Lower(q))
        original_query == Strip(q)
        hits == KeywordHits(query_lower)
        search_terms == SearchTerms(FindAllWords(original_query))
        capitalized == Capitalized(search_terms)
    IN  IF hits # {}
        THEN Intent("position_search", StripEnding(PositionKeywords[Min(hits)]))
        ELSE IF search_terms # <<>>
             THEN IF capitalized # <<>>
                  THEN Intent("name_search", capitalized)
                  ELSE Intent("name_search", search_terms)
             ELSE Intent("general", q)

\* AnalyzeQuery with the position keywords tried before the company patterns
AnalyzeQueryRoleFirst(q) ==
    LET m == CompanyMatch(Strip(q))
    IN  IF KeywordHits(Strip(Lower(q))) # {} THEN AnalyzeAfterCompany(q)
        ELSE IF m.ok THEN Intent("company_search", Strip(m.group))
        ELSE AnalyzeAfterCompany(q)

\* _analyze_query
AnalyzeQuery(q) ==
    LET m == CompanyMatch(Strip(q))
    IN  IF m.ok
        THEN Intent("company_search", Strip(m.group))
        ELSE AnalyzeAfterCompany(q)

-----------------------------------------------------------------------------
(* The queries of the model: words of a fixed vocabulary, separated by a    *)
(* space or by a comma and a space                                          *)

V_kto      == <<1082, 1090, 1086>>
V_menedzher == <<1084, 1077, 1085, 1077, 1076, 1078, 1077, 1088>>
V_Ivan     == <<1048, 1074, 1072, 1085>>
V_Petrov   == <<1055, 1077, 1090, 1088, 1086, 1074>>
V_Acme     == <<65, 99, 109, 101>>

Vocabulary ==
    {W_iz, V_kto, W_kompaniya, V_menedzher, V_Ivan, V_Petrov, V_Acme}

SepSpace == <<32>>
SepComma == <<44, 32>>
Separators == {SepSpace, SepComma}

\* the text of the words ws typed with the separators ss between them
RECURSIVE Join(_, _)
Join(ws, ss) ==
    IF Len(ws) = 1 THEN ws[1]
    ELSE ws[1] \o ss[1] \o Join(Tail(ws), Tail(ss))

WordSeqs(n) == [1..n -> Vocabulary]
SepSeqs(n) == [1..(n - 1) -> Separators]

-----------------------------------------------------------------------------
(* Specification of the classifier alone: a query is typed, then analysed   *)

NoIntent == Intent("none", <<>>)

\* the number of contacts shown to the generation step
DisplayLimit == 10

InitClassify ==
    /\ \E n \in 1..MaxWords :
         /\ qwords \in WordSeqs(n)
         /\ qseps \in SepSeqs(n)
    /\ query = Join(qwords, qseps)
    /\ pc = "start"
    /\ intent = NoIntent
    /\ contacts = <<>>
    /\ records = <<>>
    /\ storeFailed = FALSE
    /\ prompt = Null
    /\ generated = Null
    /\ genCalls = 0
    /\ failure = Null
    /\ result = Null
    /\ limit = DisplayLimit
    /\ contextOut = Null
    /\ steps = <<>>
    /\ reqs = <<>>
    /\ user_data = {}
    /\ interactions = <<>>
    /\ handled = <<>>
    /\ imports = <<>>

\* query_analysis = self._analyze_query(user_query)
Analyze ==
    /\ pc = "start"
    /\ intent' = AnalyzeQuery(query)
    /\ pc' = "fetch"
    /\ steps' = Append(steps, "classify")
    /\ UNCHANGED <<botVars, user_data, reqs, qwords, qseps, query, contacts, records, storeFailed,
                   prompt, generated, genCalls, failure, result, limit,
                   contextOut>>

NextClassify == Analyze

SpecClassify == InitClassify /\ [][NextClassify]_vars

-----------------------------------------------------------------------------
(* The literal texts of the code, as code points *)

\* the "contacts not found" message of process_query
NotFoundMsg ==
    <<10060, 32, 1050, 1086, 1085, 1090, 1072, 1082, 1090, 1099, 32, 1085,
      1077, 32, 1085, 1072, 1081, 1076, 1077, 1085, 1099, 46, 32, 1055,
      1086, 1087, 1088, 1086, 1073, 1091, 1081, 1090, 1077, 32, 1080, 1079,
      1084, 1077, 1085, 1080, 1090, 1100, 32, 1079, 1072, 1087, 1088, 1086,
      1089, 46>>

\* the text before str(e) in the message of the except clause
ErrorPrefix ==
    <<10060, 32, 1054, 1096, 1080, 1073, 1082, 1072, 32, 1087, 1088, 1080,
      32, 1086, 1073, 1088, 1072, 1073, 1086, 1090, 1082, 1077, 32, 1079,
      1072, 1087, 1088, 1086, 1089, 1072, 58, 32>>

\* the banner of _format_response
Banner ==
    <<129302, 32, 42, 42, 1056, 1077, 1079, 1091, 1083, 1100, 1090, 1072,
      1090, 32, 1087, 1086, 1080, 1089, 1082, 1072, 58, 42, 42, 10, 10>>

\* the literal parts of the prompt, in order
PromptHead ==
    <<1059, 32, 1087, 1086, 1083, 1100, 1079, 1086, 1074, 1072, 1090, 1077,
      1083, 1103, 32>>

PromptQuery ==
    <<32, 1082, 1086, 1085, 1090, 1072, 1082, 1090, 40, 1086, 1074, 41, 44,
      32, 1087, 1086, 1076, 1093, 1086, 1076, 1103, 1097, 1080, 1093, 32,
      1087, 1086, 1076, 32, 1079, 1072, 1087, 1088, 1086, 1089, 32, 34>>

PromptFirst ==
    <<34, 46, 10, 10, 1042, 1086, 1090, 32, 1087, 1077, 1088, 1074, 1099,
      1077, 32>>

PromptOfThem == <<32, 1080, 1079, 32, 1085, 1080, 1093, 58, 10, 10>>

PromptTask ==
    <<10, 10, 1047, 1040, 1044, 1040, 1063, 1040, 58, 32, 1050, 1088, 1072,
      1089, 1080, 1074, 1086, 32, 1086, 1090, 1092, 1086, 1088, 1084, 1072,
      1090, 1080, 1088, 1091, 1081, 32, 1101, 1090, 1080, 32, 1082, 1086,
      1085, 1090, 1072, 1082, 1090, 1099, 32, 1076, 1083, 1103, 32, 1087,
      1086, 1083, 1100, 1079, 1086, 1074, 1072, 1090, 1077, 1083, 1103, 46,
      10, 10, 1044, 1083, 1103, 32, 1082, 1072, 1078, 1076, 1086, 1075,
      1086, 32, 1082, 1086, 1085, 1090, 1072, 1082, 1090, 1072, 32, 1087,
      1086, 1082, 1072, 1078, 1080, 58, 10, 45, 32, 1048, 1084, 1103, 10,
      45, 32, 1050, 1086, 1084, 1087, 1072, 1085, 1080, 1103, 32, 1080, 32,
      1076, 1086, 1083, 1078, 1085, 1086, 1089, 1090, 1100, 32, 40, 1077,
      1089, 1083, 1080, 32, 1077, 1089, 1090, 1100, 41, 10, 45, 32, 1050,
      1086, 1085, 1090, 1072, 1082, 1090, 1085, 1099, 1077, 32, 1076, 1072,
      1085, 1085, 1099, 1077, 32, 40, 69, 109, 97, 105, 108, 44, 32, 84,
      101, 108, 101, 103, 114, 97, 109, 44, 32, 1058, 1077, 1083, 1077,
      1092, 1086, 1085, 41, 10, 45, 32, 1055, 1086, 1089, 1083, 1077, 1076,
      1085, 1077, 1077, 32, 1074, 1079, 1072, 1080, 1084, 1086, 1076, 1077,
      1081, 1089, 1090, 1074, 1080, 1077, 32, 40, 1077, 1089, 1083, 1080,
      32, 1077, 1089, 1090, 1100, 41, 10, 10, 1042, 32, 1050, 1054, 1053,
      1062, 1045, 32, 1086, 1073, 1103, 1079, 1072, 1090, 1077, 1083, 1100,
      1085, 1086, 32, 1076, 1086, 1073, 1072, 1074, 1100, 58, 10>>

PromptMoreHead ==
    <<45, 32, 1053, 1072, 1081, 1076, 1077, 1085, 1086, 32, 1077, 1097,
      1077, 32>>

PromptMoreTail ==
    <<32, 1082, 1086, 1085, 1090, 1072, 1082, 1090, 40, 1086, 1074, 41>>

PromptTail ==
    <<10, 10, 1054, 1090, 1074, 1077, 1095, 1072, 1081, 32, 1087, 1086, 45,
      1088, 1091, 1089, 1089, 1082, 1080, 44, 32, 1082, 1088, 1072, 1090,
      1082, 1086, 32, 1080, 32, 1089, 1090, 1088, 1091, 1082, 1090, 1091,
      1088, 1080, 1088, 1086, 1074, 1072, 1085, 1085, 1086, 46>>

\* the literal parts of a context line
L_Dot == <<46, 32>>

L_Open == <<32, 40>>

L_Comma == <<44, 32>>

L_Close == <<41>>

L_Tags == <<32, 91, 1058, 1077, 1075, 1080, 58, 32>>

L_TagsEnd == <<93>>

L_Bio ==
    <<32, 124, 32, 1054, 1087, 1080, 1089, 1072, 1085, 1080, 1077, 58, 32>>

L_Ellipsis == <<46, 46, 46>>

L_Last ==
    <<32, 124, 32, 1055, 1086, 1089, 1083, 1077, 1076, 1085, 1080, 1081,
      32, 1082, 1086, 1085, 1090, 1072, 1082, 1090, 58, 32>>

L_TG == <<84, 71, 58, 32>>

L_Email == <<69, 109, 97, 105, 108, 58, 32>>

L_Phone == <<1058, 1077, 1083, 58, 32>>

L_Bar == <<32, 124, 32>>

L_MoreHead == <<10, 46, 46, 46, 32, 1080, 32, 1077, 1097, 1105, 32>>

L_MoreTail ==
    <<32, 1082, 1086, 1085, 1090, 1072, 1082, 1090, 1086, 1074>>

L_Newline == <<10>>

\* str(e) of the TypeError raised by ', '.join(None)
E_Join ==
    <<99, 97, 110, 32, 111, 110, 108, 121, 32, 106, 111, 105, 110, 32, 97,
      110, 32, 105, 116, 101, 114, 97, 98, 108, 101>>

\* str(e) of failures of the generation call
E_Quota ==
    <<52, 50, 57, 32, 82, 101, 115, 111, 117, 114, 99, 101, 32, 104, 97,
      115, 32, 98, 101, 101, 110, 32, 101, 120, 104, 97, 117, 115, 116,
      101, 100>>

E_Blocked ==
    <<114, 101, 115, 112, 111, 110, 115, 101, 46, 116, 101, 120, 116, 32,
      114, 101, 113, 117, 105, 114, 101, 115, 32, 97, 32, 118, 97, 108,
      105, 100, 32, 80, 97, 114, 116>>

\* a text returned by the generation service
T_Answer == <<49, 46, 32, 73, 118, 97, 110>>

\* str(n) for n >= 0
RECURSIVE Str(_)
Str(n) == IF n < 10 THEN <<48 + n>> ELSE Str(n \div 10) \o <<48 + (n % 10)>>

\* sep.join(parts)
RECURSIVE JoinWith(_, _)
JoinWith(sep, parts) ==
    IF parts = <<>> THEN <<>>
    ELSE IF Len(parts) = 1 THEN parts[1]
    ELSE parts[1] \o sep \o JoinWith(sep, Tail(parts))

\* bool(v) of an optional string
Truthy(v) == v # Null /\ v # <<>>

\* lst[:n]
Take(lst, n) == SubSeq(lst, 1, IF Len(lst) < n THEN Len(lst) ELSE n)

Reverse(lst) == [i \in 1..Len(lst) |-> lst[Len(lst) + 1 - i]]

-----------------------------------------------------------------------------
(* The contact store: rows of the contact_summary view *)

C_IvanPetrov == [
    id |-> 1,
    name |-> <<1048, 1074, 1072, 1085, 32, 1055, 1077, 1090, 1088, 1086, 1074>>,  \* Ivan Petrov
    company |-> <<65, 99, 109, 101>>,  \* Acme
    position |-> <<72, 82, 32, 1052, 1077, 1085, 1077, 1076, 1078, 1077, 1088>>,  \* HR Menedzher
    tags |-> <<<<118, 105, 112>>>>,
    bio |-> <<81, 65, 32, 108, 101, 97, 100>>,  \* QA lead
    last_interaction_date |-> <<50, 48, 50, 52, 45, 49, 49, 45, 48, 50>>,  \* 2024-11-02
    telegram |-> <<64, 105, 118, 97, 110, 95, 104, 114>>,  \* @ivan_hr
    email |-> Null,
    phone |-> Null ]

C_IvanSidorov == [
    id |-> 2,
    name |-> <<1048, 1042, 1040, 1053, 32, 1057, 1080, 1076, 1086, 1088, 1086, 1074>>,  \* IVAN Sidorov
    company |-> Null,
    position |-> Null,
    tags |-> NullList,
    bio |-> Null,
    last_interaction_date |-> Null,
    telegram |-> Null,
    email |-> Null,
    phone |-> Null ]

C_AnnaPetrova == [
    id |-> 3,
    name |-> <<1040, 1085, 1085, 1072, 32, 1055, 1077, 1090, 1088, 1086, 1074, 1072>>,  \* Anna Petrova
    company |-> <<1058, 1077, 1093, 1050, 1086, 1088, 1087>>,  \* TekhKorp
    position |-> Null,
    tags |-> <<>>,
    bio |-> Null,
    last_interaction_date |-> Null,
    telegram |-> Null,
    email |-> <<97, 110, 110, 97, 64, 116, 101, 99, 104, 46, 114, 117>>,  \* anna@tech.ru
    phone |-> <<43, 55, 57, 48, 48>> ]  \* +7900

C_BobStone == [
    id |-> 4,
    name |-> <<66, 111, 98, 32, 83, 116, 111, 110, 101>>,  \* Bob Stone
    company |-> <<97, 99, 109, 101, 32, 108, 97, 98, 115>>,  \* acme labs
    position |-> <<1084, 1077, 1085, 1077, 1076, 1078, 1077, 1088>>,  \* menedzher
    tags |-> <<<<97>>, <<98>>>>,
    bio |-> <<>>,
    last_interaction_date |-> Null,
    telegram |-> <<64, 98, 111, 98>>,  \* @bob
    email |-> Null,
    phone |-> Null ]

ContactPool == {C_IvanPetrov, C_IvanSidorov, C_AnnaPetrova, C_BobStone}

\* the stores of the model: up to MaxContacts distinct rows, in any creation order
Stores ==
    UNION {{st \in [1..n -> ContactPool] :
              \A i, j \in 1..n : i # j => st[i] # st[j]} : n \in 0..MaxContacts}

-----------------------------------------------------------------------------
(* _fetch_filtered_contacts *)

\* .limit(100) of the general search
GeneralLimit == 100

\* column ILIKE '%' || x || '%': x occurs in the value, letters compared without
\* case, an underscore of x standing for any one character; NULL matches nothing.
\* (The filters _analyze_query can produce hold no '%', '*' or backslash.)
Ilike(value, x) ==
    /\ value # Null
    /\ \E i \in 1..(Len(value) - Len(x) + 1) :
         \A k \in 1..Len(x) :
            x[k] = 95 \/ LowerChar(value[i + k - 1]) = LowerChar(x[k])

\* the or_ condition "name.ilike.%t1%,name.ilike.%t2%,...": the lowercased terms
NameConditions(search_terms) == [i \in 1..Len(search_terms) |-> Lower(search_terms[i])]

\* NameRowMatches with the conditions AND-ed
NameRowMatchesAll(row, conditions) ==
    \A i \in 1..Len(conditions) : Ilike(row.name, conditions[i])

\* .or_(or_condition): a row passes when one of the conditions holds
NameRowMatches(row, conditions) ==
    \E i \in 1..Len(conditions) : Ilike(row.name, conditions[i])

\* .order('created_at', desc=True): rows is in creation order, oldest first
OrderDesc(rows) == Reverse(rows)

\* GeneralSearch with the limit applied before the ordering: the oldest rows
GeneralSearchOldest(rows) == OrderDesc(Take(rows, GeneralLimit))

\* the general branch: .order('created_at', desc=True).limit(100)
GeneralSearch(rows) == Take(OrderDesc(rows), GeneralLimit)

\* the rows the store returns for the query the code builds
FetchFiltered(query_type, filter_value, rows) ==
    IF query_type = "name_search" /\ filter_value # <<>>
    THEN OrderDesc(SelectSeq(rows,
             LAMBDA r : NameRowMatches(r, NameConditions(filter_value))))
    ELSE IF query_type = "company_search" /\ filter_value # <<>>
    THEN OrderDesc(SelectSeq(rows, LAMBDA r : Ilike(r.company, filter_value)))
    ELSE IF query_type = "position_search" /\ filter_value # <<>>
    THEN OrderDesc(SelectSeq(rows, LAMBDA r : Ilike(r.position, filter_value)))
    ELSE GeneralSearch(rows)

-----------------------------------------------------------------------------
(* _prepare_context *)

Raise(e) == [ok |-> FALSE, value |-> e]
Return(v) == [ok |-> TRUE, value |-> v]

\* the truncation budget of a biography and the length kept before the ellipsis
BioBudget == 120
BioKept == 117

\* ShortBio cutting at the budget itself: bio[:120] + '...'
ShortBioWholeBudget(bio) ==
    IF Len(bio) <= BioBudget THEN bio ELSE SubSeq(bio, 1, BioBudget) \o L_Ellipsis

\* short_bio
ShortBio(bio) ==
    IF Len(bio) <= BioBudget THEN bio ELSE SubSeq(bio, 1, BioKept) \o L_Ellipsis

\* contact_info
ContactInfo(contact) ==
    (IF Truthy(contact.telegram) THEN <<L_TG \o contact.telegram>> ELSE <<>>)
    \o (IF Truthy(contact.email) THEN <<L_Email \o contact.email>> ELSE <<>>)
    \o (IF Truthy(contact.phone) THEN <<L_Phone \o contact.phone>> ELSE <<>>)

\* the line of contact number i; contact.tags is a list here
ContactLine(i, contact) ==
    LET tags == JoinWith(L_Comma, contact.tags)
        info == ContactInfo(contact)
    IN  Str(i) \o L_Dot \o contact.name
        \o (IF Truthy(contact.company)
            THEN L_Open \o contact.company
                 \o (IF Truthy(contact.position)
                     THEN L_Comma \o contact.position ELSE <<>>)
                 \o L_Close
            ELSE <<>>)
        \o (IF tags # <<>> THEN L_Tags \o tags \o L_TagsEnd ELSE <<>>)
        \o (IF Truthy(contact.bio) THEN L_Bio \o ShortBio(contact.bio) ELSE <<>>)
        \o (IF Truthy(contact.last_interaction_date)
            THEN L_Last \o contact.last_interaction_date ELSE <<>>)
        \o (IF info # <<>> THEN L_Bar \o JoinWith(L_Comma, info) ELSE <<>>)

\* ContextLines with the summary test written total_count >= max_contacts
ContextLinesAtLimit(contacts_data, max_contacts) ==
    LET limited_contacts == Take(contacts_data, max_contacts)
        total_count == Len(contacts_data)
    IN  [i \in 1..Len(limited_contacts) |-> ContactLine(i, limited_contacts[i])]
        \o (IF total_count >= max_contacts
            THEN <<L_MoreHead \o Str(total_count - max_contacts) \o L_MoreTail>>
            ELSE <<>>)

\* context_lines
ContextLines(contacts_data, max_contacts) ==
    LET limited_contacts == Take(contacts_data, max_contacts)
        total_count == Len(contacts_data)
    IN  [i \in 1..Len(limited_contacts) |-> ContactLine(i, limited_contacts[i])]
        \o (IF total_count > max_contacts
            THEN <<L_MoreHead \o Str(total_count - max_contacts) \o L_MoreTail>>
            ELSE <<>>)

\* _prepare_context: ', '.join(None) raises TypeError for a row whose tags are NULL
PrepareContext(contacts_data, max_contacts) ==
    IF \E i \in 1..Len(Take(contacts_data, max_contacts)) :
          contacts_data[i].tags = NullList
    THEN Raise(E_Join)
    ELSE Return(JoinWith(L_Newline, ContextLines(contacts_data, max_contacts)))

-----------------------------------------------------------------------------
(* process_query *)

\* BuildPrompt without the closing line that states the omitted contacts
BuildPromptNoCount(user_query, total_found, shown, context) ==
    PromptHead \o Str(total_found) \o PromptQuery \o user_query \o PromptFirst
    \o Str(shown) \o PromptOfThem \o context \o PromptTask
    \o PromptTail

\* the prompt of step 4
BuildPrompt(user_query, total_found, shown, context) ==
    PromptHead \o Str(total_found) \o PromptQuery \o user_query \o PromptFirst
    \o Str(shown) \o PromptOfThem \o context \o PromptTask
    \o (IF total_found > DisplayLimit
        THEN PromptMoreHead \o Str(total_found - DisplayLimit) \o PromptMoreTail
        ELSE <<>>)
    \o PromptTail

\* _format_response
FormatResponse(ai_response) == Banner \o ai_response

\* the string returned by the except clause of process_query
ErrorMessage(e) == ErrorPrefix \o e

\* what model.generate_content / response.text can raise, and return
GenErrors == {E_Quota, E_Blocked}
GenTexts(p) == {T_Answer, p}


\* str(e) of a failed store call
E_Store == <<115, 116, 111, 114, 101, 32, 100, 111, 119, 110>>

\* FetchOutcome without the except clause: the failure reaches the caller
FetchOutcomeReraise(raised, rows) ==
    IF raised THEN Raise(E_Store) ELSE Return(rows)

\* the except clause of _fetch_filtered_contacts: a failed store call is
\* logged and an empty list is returned
FetchOutcome(raised, rows) ==
    IF raised THEN Return(<<>>) ELSE Return(rows)

\* IsEmptyResult with the test left out
IsEmptyResultNever(contacts_data) == FALSE

\* not contacts_data
IsEmptyResult(contacts_data) == contacts_data = <<>>

\* ExceptClause letting the exception escape process_query
ExceptClauseReraise(e) == [pc |-> "raised", result |-> Null]

\* ExceptClause swallowing the exception: the request goes on to the return
\* statement that formats the answer
ExceptClauseFallThrough(e) == [pc |-> "format", result |-> Null]

\* ExceptClause trying the generation call again
ExceptClauseRetry(e) == [pc |-> "generate", result |-> Null]

\* except Exception as e: return the error message; process_query ends
ExceptClause(e) == [pc |-> "done", result |-> ErrorMessage(e)]

Init ==
    /\ \E n \in 1..MaxPipelineWords :
         /\ qwords \in WordSeqs(n)
         /\ qseps \in [1..(n - 1) -> {SepSpace}]
    /\ query = Join(qwords, qseps)
    /\ pc = "start"
    /\ intent = NoIntent
    /\ contacts \in Stores
    /\ records = <<>>
    /\ storeFailed = FALSE
    /\ prompt = Null
    /\ generated = Null
    /\ genCalls = 0
    /\ failure = Null
    /\ result = Null
    /\ limit = DisplayLimit
    /\ contextOut = Null
    /\ steps = <<>>
    /\ reqs = <<>>
    /\ user_data = {}
    /\ interactions = <<>>
    /\ handled = <<>>
    /\ imports = <<>>

\* 2025-01-01, a date written by StoreAfterTouch
D_Today == <<50, 48, 50, 53, 45, 48, 49, 45, 48, 49>>

\* StoreAfterSelect with the call writing the date of the query into the rows
StoreAfterTouch(rows) ==
    [i \in 1..Len(rows) |-> [rows[i] EXCEPT !.last_interaction_date = D_Today]]

\* the store after the one store call of the request, table(...).select('*')
\* ... .execute(): a select leaves the rows as they were
StoreAfterSelect(rows) == rows

\* contacts_data = await self._fetch_filtered_contacts(...): the store call
\* returns (raised = FALSE) or raises (raised = TRUE)
Fetch(raised) ==
    /\ pc = "fetch"
    /\ LET r == FetchOutcome(raised,
                    FetchFiltered(intent.type, intent.filter, contacts))
       IN  IF r.ok
           THEN /\ records' = r.value
                /\ pc' = "fetched"
                /\ UNCHANGED <<failure, result>>
           ELSE /\ failure' = r.value
                /\ result' = ExceptClause(r.value).result
                /\ pc' = ExceptClause(r.value).pc
                /\ UNCHANGED records
    /\ storeFailed' = raised
    /\ contacts' = IF raised THEN contacts ELSE StoreAfterSelect(contacts)
    /\ steps' = Append(steps, "search")
    /\ UNCHANGED <<botVars, user_data, reqs, qwords, qseps, query, intent, prompt, generated,
                   genCalls, limit, contextOut>>

FetchReturn == Fetch(FALSE)

FetchRaise == Fetch(TRUE)

\* if not contacts_data: return the "not found" message
NotFound ==
    /\ pc = "fetched"
    /\ IsEmptyResult(records)
    /\ result' = NotFoundMsg
    /\ pc' = "done"
    /\ UNCHANGED <<botVars, user_data, reqs, qwords, qseps, query, intent, contacts, records, storeFailed,
                   prompt, generated, genCalls, failure, limit, contextOut,
                   steps>>

\* steps 3 and 4: display_contacts, context and prompt; an exception of
\* _prepare_context is caught by the except clause of process_query
PreparePrompt ==
    /\ pc = "fetched"
    /\ ~IsEmptyResult(records)
    /\ LET total_found == Len(records)
           display_contacts == Take(records, DisplayLimit)
           ctx == PrepareContext(display_contacts, limit)
       IN  IF ctx.ok
           THEN /\ contextOut' = ctx.value
                /\ prompt' = BuildPrompt(query, total_found,
                                         Len(display_contacts), ctx.value)
                /\ pc' = "generate"
                /\ UNCHANGED <<failure, result>>
           ELSE /\ failure' = ctx.value
                /\ result' = ExceptClause(ctx.value).result
                /\ pc' = ExceptClause(ctx.value).pc
                /\ UNCHANGED <<prompt, contextOut>>
    /\ steps' = Append(steps, "context")
    /\ UNCHANGED <<botVars, user_data, reqs, qwords, qseps, query, intent, contacts, records, storeFailed,
                   generated, genCalls, limit>>

\* step 5: model.generate_content(prompt) returns a response with a text
GenerateReturn ==
    /\ pc = "generate"
    /\ \E t \in GenTexts(prompt) : generated' = t
    /\ genCalls' = genCalls + 1
    /\ pc' = "format"
    /\ steps' = Append(steps, "generate")
    /\ UNCHANGED <<botVars, user_data, reqs, qwords, qseps, query, intent, contacts, records, storeFailed,
                   prompt, failure, result, limit, contextOut>>

\* step 5 fails: generate_content or response.text raises, the except clause
\* of process_query returns the error message
GenerateRaise ==
    /\ pc = "generate"
    /\ \E e \in GenErrors :
         /\ failure' = e
         /\ result' = ExceptClause(e).result
         /\ pc' = ExceptClause(e).pc
    /\ genCalls' = genCalls + 1
    /\ steps' = Append(steps, "generate")
    /\ UNCHANGED <<botVars, user_data, reqs, qwords, qseps, query, intent, contacts, records, storeFailed,
                   prompt, generated, limit, contextOut>>

\* return self._format_response(response.text)
Format ==
    /\ pc = "format"
    /\ result' = FormatResponse(generated)
    /\ pc' = "done"
    /\ steps' = Append(steps, "format")
    /\ UNCHANGED <<botVars, user_data, reqs, qwords, qseps, query, intent, contacts, records, storeFailed,
                   prompt, generated, genCalls, failure, limit, contextOut>>

Next ==
    \/ Analyze
    \/ FetchReturn
    \/ FetchRaise
    \/ NotFound
    \/ PreparePrompt
    \/ GenerateReturn
    \/ GenerateRaise
    \/ Format

Spec == Init /\ [][Next]_vars

-----------------------------------------------------------------------------
(* process_query over a large store: stores of up to MaxRows rows, beyond   *)
(* the display limit and the cap of the general search                      *)

\* number of rows in a large store
MaxRows == 101

V_acme_labs == <<97, 99, 109, 101, 95, 108, 97, 98, 115>>  \* acme_labs

\* the queries run over a large store: one general, two company searches, one
\* position search and one name search
LargeQueries ==
    {<<V_kto>>, <<W_iz, V_Acme>>, <<W_iz, V_acme_labs>>, <<V_menedzher>>,
     <<V_Ivan>>}

\* the kinds of rows a large store is filled with, in rotation
StoreShapes ==
    {<<C_IvanPetrov, C_IvanSidorov, C_AnnaPetrova, C_BobStone>>,
     <<C_AnnaPetrova, C_IvanPetrov, C_BobStone>>,
     <<C_BobStone, C_IvanPetrov>>}

\* n rows created one after the other, row i with id i
LargeStore(shape, n) ==
    [i \in 1..n |-> [shape[((i - 1) % Len(shape)) + 1] EXCEPT !.id = i]]

InitLarge ==
    /\ qwords \in LargeQueries
    /\ qseps = [i \in 1..(Len(qwords) - 1) |-> SepSpace]
    /\ query = Join(qwords, qseps)
    /\ pc = "start"
    /\ intent = NoIntent
    /\ \E shape \in StoreShapes, n \in 0..MaxRows :
         contacts = LargeStore(shape, n)
    /\ records = <<>>
    /\ storeFailed = FALSE
    /\ prompt = Null
    /\ generated = Null
    /\ genCalls = 0
    /\ failure = Null
    /\ result = Null
    /\ limit = DisplayLimit
    /\ contextOut = Null
    /\ steps = <<>>
    /\ reqs = <<>>
    /\ user_data = {}
    /\ interactions = <<>>
    /\ handled = <<>>
    /\ imports = <<>>

SpecLarge == InitLarge /\ [][Next]_vars

-----------------------------------------------------------------------------
(* _prepare_context alone: a list of rows and a limit are given, the        *)
(* function is called once                                                  *)

\* number of rows handed to _prepare_context
MaxCtxRecords == 15
\* length of the longest biography
MaxBioLen == 122

\* the default of the max_contacts parameter
DefaultMaxContacts == 100

\* a contact with a position and no company
C_OlgaOrlova == [
    id |-> 5,
    name |-> <<79, 108, 103, 97, 32, 79, 114, 108, 111, 118, 97>>,  \* Olga Orlova
    company |-> Null,
    position |-> <<67, 84, 79>>,  \* CTO
    tags |-> <<>>,
    bio |-> Null,
    last_interaction_date |-> <<50, 48, 50, 53, 45, 48, 49, 45, 49, 53>>,  \* 2025-01-15
    telegram |-> Null,
    email |-> Null,
    phone |-> <<43, 55, 57, 49, 49>> ]  \* +7911

\* a biography of n characters: abc...zabc...
BioText(n) == [i \in 1..n |-> 97 + ((i - 1) % 26)]

\* a contact whose line ends with its biography
BioContact(n) == [
    id |-> 6,
    name |-> <<90, 111, 101>>,  \* Zoe
    company |-> Null,
    position |-> Null,
    tags |-> <<>>,
    bio |-> BioText(n),
    last_interaction_date |-> Null,
    telegram |-> Null,
    email |-> Null,
    phone |-> Null ]

ContextShapes == StoreShapes \cup {<<C_OlgaOrlova, C_AnnaPetrova>>}

\* the lists handed to _prepare_context: up to MaxCtxRecords rows of the
\* pool, and one row for each length of biography
ContextInputs ==
    {LargeStore(shape, n) : shape \in ContextShapes, n \in 0..MaxCtxRecords}
    \cup {<<BioContact(n)>> : n \in 0..MaxBioLen}

ContextLimits == {1, 3, DisplayLimit, DefaultMaxContacts}

InitContext ==
    /\ qwords = <<>>
    /\ qseps = <<>>
    /\ query = <<>>
    /\ pc = "context"
    /\ intent = NoIntent
    /\ contacts = <<>>
    /\ records \in ContextInputs
    /\ storeFailed = FALSE
    /\ prompt = Null
    /\ generated = Null
    /\ genCalls = 0
    /\ failure = Null
    /\ result = Null
    /\ limit \in ContextLimits
    /\ contextOut = Null
    /\ steps = <<>>
    /\ reqs = <<>>
    /\ user_data = {}
    /\ interactions = <<>>
    /\ handled = <<>>
    /\ imports = <<>>

\* self._prepare_context(records, limit): returns the text, or raises
PrepareContextCall ==
    /\ pc = "context"
    /\ LET ctx == PrepareContext(records, limit)
       IN  IF ctx.ok
           THEN contextOut' = ctx.value /\ UNCHANGED failure
           ELSE failure' = ctx.value /\ UNCHANGED contextOut
    /\ pc' = "done"
    /\ steps' = Append(steps, "context")
    /\ UNCHANGED <<botVars, user_data, reqs, qwords, qseps, query, intent, contacts, records, storeFailed,
                   prompt, generated, genCalls, result, limit>>

NextContext == PrepareContextCall

SpecContext == InitContext /\ [][NextContext]_vars

-----------------------------------------------------------------------------
(* Several process_query requests side by side on the one AIInterface       *)
(* object: every await of a request (the store call, the generation call)   *)
(* lets the steps of the other requests run in between                      *)

\* number of requests running side by side
NumRequests == 2

Requests == 1..NumRequests

ConcurrentQueries == {<<V_Ivan>>, <<W_iz, V_Acme>>}

ConcurrentStores ==
    {<<>>, <<C_IvanPetrov, C_BobStone>>, <<C_IvanSidorov, C_AnnaPetrova>>}

\* a request at the entry of process_query
NewRequest(user_query) ==
    [query |-> user_query, pc |-> "start", intent |-> NoIntent,
     records |-> <<>>, storeFailed |-> FALSE, prompt |-> Null,
     generated |-> Null, genCalls |-> 0, failure |-> Null, result |-> Null]

\* Locals with the values kept in one place for all requests
LocalsShared(rs, r) == rs[1]

\* the local variables a step of request r reads (query_analysis,
\* contacts_data, prompt, response): those of its own coroutine
Locals(rs, r) == rs[r]

\* the variables of the one-request specifications
soloVars == <<qwords, qseps, query, pc, intent, records, storeFailed, prompt,
              generated, genCalls, failure, result, limit, contextOut, steps>>

InitConcurrent ==
    /\ qwords = <<>>
    /\ qseps = <<>>
    /\ query = <<>>
    /\ pc = "concurrent"
    /\ intent = NoIntent
    /\ contacts \in ConcurrentStores
    /\ records = <<>>
    /\ storeFailed = FALSE
    /\ prompt = Null
    /\ generated = Null
    /\ genCalls = 0
    /\ failure = Null
    /\ result = Null
    /\ limit = DisplayLimit
    /\ contextOut = Null
    /\ steps = <<>>
    /\ \E qs \in [Requests -> ConcurrentQueries] :
         reqs = [r \in Requests |-> NewRequest(Join(qs[r], <<SepSpace>>))]
    /\ user_data = {}
    /\ interactions = <<>>
    /\ handled = <<>>
    /\ imports = <<>>

\* request r: query_analysis = self._analyze_query(user_query)
AnalyzeOf(r) ==
    /\ reqs[r].pc = "start"
    /\ reqs' = [reqs EXCEPT ![r].intent = AnalyzeQuery(reqs[r].query),
                            ![r].pc = "fetch"]
    /\ UNCHANGED <<contacts, soloVars, user_data, botVars>>

\* request r: the store call returns (raised = FALSE) or raises
FetchOf(r, raised) ==
    /\ reqs[r].pc = "fetch"
    /\ LET l == Locals(reqs, r)
           out == FetchOutcome(raised,
                      FetchFiltered(l.intent.type, l.intent.filter, contacts))
       IN  IF out.ok
           THEN reqs' = [reqs EXCEPT ![r].records = out.value,
                                     ![r].storeFailed = raised,
                                     ![r].pc = "fetched"]
           ELSE reqs' = [reqs EXCEPT ![r].failure = out.value,
                                     ![r].storeFailed = raised,
                                     ![r].result = ExceptClause(out.value).result,
                                     ![r].pc = ExceptClause(out.value).pc]
    /\ contacts' = IF raised THEN contacts ELSE StoreAfterSelect(contacts)
    /\ UNCHANGED <<soloVars, user_data, botVars>>

FetchReturnOf(r) == FetchOf(r, FALSE)

FetchRaiseOf(r) == FetchOf(r, TRUE)

\* request r: if not contacts_data: return the "not found" message
NotFoundOf(r) ==
    /\ reqs[r].pc = "fetched"
    /\ IsEmptyResult(Locals(reqs, r).records)
    /\ reqs' = [reqs EXCEPT ![r].result = NotFoundMsg, ![r].pc = "done"]
    /\ UNCHANGED <<contacts, soloVars, user_data, botVars>>

\* request r: steps 3 and 4
PreparePromptOf(r) ==
    /\ reqs[r].pc = "fetched"
    /\ LET l == Locals(reqs, r)
           display_contacts == Take(l.records, DisplayLimit)
           ctx == PrepareContext(display_contacts, DisplayLimit)
       IN  /\ ~IsEmptyResult(l.records)
           /\ IF ctx.ok
              THEN reqs' = [reqs EXCEPT
                              ![r].prompt = BuildPrompt(reqs[r].query,
                                                Len(l.records),
                                                Len(display_contacts), ctx.value),
                              ![r].pc = "generate"]
              ELSE reqs' = [reqs EXCEPT
                              ![r].failure = ctx.value,
                              ![r].result = ExceptClause(ctx.value).result,
                              ![r].pc = ExceptClause(ctx.value).pc]
    /\ UNCHANGED <<contacts, soloVars, user_data, botVars>>

\* request r: step 5 returns a text
GenerateReturnOf(r) ==
    /\ reqs[r].pc = "generate"
    /\ \E t \in GenTexts(Locals(reqs, r).prompt) :
         reqs' = [reqs EXCEPT ![r].generated = t,
                              ![r].genCalls = reqs[r].genCalls + 1,
                              ![r].pc = "format"]
    /\ UNCHANGED <<contacts, soloVars, user_data, botVars>>

\* request r: step 5 raises
GenerateRaiseOf(r) ==
    /\ reqs[r].pc = "generate"
    /\ \E e \in GenErrors :
         reqs' = [reqs EXCEPT ![r].failure = e,
                              ![r].genCalls = reqs[r].genCalls + 1,
                              ![r].result = ExceptClause(e).result,
                              ![r].pc = ExceptClause(e).pc]
    /\ UNCHANGED <<contacts, soloVars, user_data, botVars>>

\* request r: return self._format_response(response.text)
FormatOf(r) ==
    /\ reqs[r].pc = "format"
    /\ reqs' = [reqs EXCEPT
                  ![r].result = FormatResponse(Locals(reqs, r).generated),
                  ![r].pc = "done"]
    /\ UNCHANGED <<contacts, soloVars, user_data, botVars>>

NextConcurrent ==
    \E r \in Requests :
        \/ AnalyzeOf(r)
        \/ FetchReturnOf(r)
        \/ FetchRaiseOf(r)
        \/ NotFoundOf(r)
        \/ PreparePromptOf(r)
        \/ GenerateReturnOf(r)
        \/ GenerateRaiseOf(r)
        \/ FormatOf(r)

SpecConcurrent == InitConcurrent /\ [][NextConcurrent]_vars

-----------------------------------------------------------------------------
(* The handlers that write the contacts table (src/bot/handlers.py: /quick,  *)
(* /edit, /profile and a document sent to the bot) and the file import       *)
(* (src/bot/importer.py).  A dict is a record holding exactly the keys the   *)
(* dict holds.                                                               *)

\* number of rows the contacts table can hold
MaxTableRows == 2

\* d.get(key, default)
DictGet(d, key, default) == IF key \in DOMAIN d THEN d[key] ELSE default

\* text.split(ch)
RECURSIVE SplitOn(_, _)
SplitOn(text, ch) ==
    IF \A k \in 1..Len(text) : text[k] # ch THEN <<text>>
    ELSE LET k == Min({j \in 1..Len(text) : text[j] = ch})
         IN  <<SubSeq(text, 1, k - 1)>> \o SplitOn(SubSeq(text, k + 1, Len(text)), ch)

\* re.match(r'^[\w\.-]+@[\w\.-]+\.\w+$', part)
EmailLike(part) ==
    LET IsEmailChar(c) == IsWordChar(c) \/ c = 46 \/ c = 45
    IN  \E i \in 2..Len(part) :
            /\ part[i] = 64
            /\ \A k \in 1..(i - 1) : IsEmailChar(part[k])
            /\ \E j \in (i + 2)..(Len(part) - 1) :
                 /\ part[j] = 46
                 /\ \A k \in (i + 1)..(j - 1) : IsEmailChar(part[k])
                 /\ \A k \in (j + 1)..Len(part) : IsWordChar(part[k])

\* re.match(r'^\+?\d[\d\s\-\(\)]+$', part)
PhoneLike(part) ==
    LET d == IF part # <<>> /\ part[1] = 43 THEN 2 ELSE 1
    IN  /\ Len(part) >= d + 1
        /\ IsDigit(part[d])
        /\ \A k \in (d + 1)..Len(part) :
             IsDigit(part[k]) \/ IsSpace(part[k]) \/ part[k] \in {45, 40, 41}

\* _parse_contact_string: name, company and position are the first three
\* parts; each later part sets telegram, email or phone, the last one winning
ParseContactString(data_string) ==
    LET split == SplitOn(data_string, 44)
        parts == [i \in 1..Len(split) |-> Strip(split[i])]
        rest == 4..Len(parts)
        tg == {i \in rest : Contains(parts[i], <<64>>) /\ parts[i][1] = 64}
        em == {i \in rest : /\ Contains(parts[i], <<64>>)
                            /\ parts[i][1] # 64
                            /\ EmailLike(parts[i])}
        ph == {i \in rest : ~Contains(parts[i], <<64>>) /\ PhoneLike(parts[i])}
        keys == {"name", "company", "position"}
                  \cup (IF tg # {} THEN {"telegram"} ELSE {})
                  \cup (IF em # {} THEN {"email"} ELSE {})
                  \cup (IF ph # {} THEN {"phone"} ELSE {})
    IN  [key \in keys |->
            CASE key = "name" -> parts[1]
              [] key = "company" -> IF Len(parts) > 1 THEN parts[2] ELSE Null
              [] key = "position" -> IF Len(parts) > 2 THEN parts[3] ELSE Null
              [] key = "telegram" -> parts[Max(tg)]
              [] key = "email" -> parts[Max(em)]
              [] key = "phone" -> parts[Max(ph)]]

\* the fields /edit may change (allowed_fields), as texts
AllowedFields ==
    [name |-> <<110, 97, 109, 101>>, company |-> <<99, 111, 109, 112, 97, 110, 121>>, position |-> <<112, 111, 115, 105, 116, 105, 111, 110>>,
     email |-> <<101, 109, 97, 105, 108>>, telegram |-> <<116, 101, 108, 101, 103, 114, 97, 109>>, phone |-> <<112, 104, 111, 110, 101>>,
     tags |-> <<116, 97, 103, 115>>, bio |-> <<98, 105, 111>>]

\* _parse_update_fields, from the tokens shlex.split returned: a token
\* field=value sets the field when the field is allowed and the value is not
\* empty, the last such token winning
ParseUpdateFields(tokens) ==
    LET HasEq(token) == Contains(token, <<61>>)
        EqAt(token) == Min({k \in 1..Len(token) : token[k] = 61})
        FieldOf(token) == Lower(Strip(SubSeq(token, 1, EqAt(token) - 1)))
        ValueOf(token) == Strip(SubSeq(token, EqAt(token) + 1, Len(token)))
        Sets(key) == {i \in 1..Len(tokens) : /\ HasEq(tokens[i])
                                             /\ FieldOf(tokens[i]) = AllowedFields[key]
                                             /\ ValueOf(tokens[i]) # <<>>}
        TagsOf(value) ==
            LET split == SplitOn(value, 44)
            IN  SelectSeq([i \in 1..Len(split) |-> Strip(split[i])],
                          LAMBDA tag : tag # <<>>)
    IN  [key \in {k \in DOMAIN AllowedFields : Sets(k) # {}} |->
            IF key = "tags" THEN TagsOf(ValueOf(tokens[Max(Sets(key))]))
            ELSE ValueOf(tokens[Max(Sets(key))])]

\* _find_contact: the ids of the rows the select returns; the query has no
\* ORDER BY, so response.data[0] is any one of them
FindContact(rows, identifier) ==
    {rows[i].id : i \in {k \in 1..Len(rows) :
        IF identifier # <<>> /\ identifier[1] = 64
        THEN rows[k].telegram = identifier
        ELSE IF Contains(identifier, <<64>>)
        THEN rows[k].email = identifier
        ELSE Ilike(rows[k].name, identifier)}}

\* the columns of the contacts table that the handlers read or write
Columns == {"id", "name", "company", "position", "email", "telegram", "phone",
            "tags", "bio"}

\* table('contacts').insert(payload).execute(): the new row takes the next id
\* and NULL in every column the payload does not name; the store refuses a
\* row without a name
InsertRow(rows, payload, raised) ==
    IF raised \/ DictGet(payload, "name", Null) = Null THEN Raise(E_Store)
    ELSE Return(Append(rows,
            [col \in Columns |->
                IF col = "id" THEN Len(rows) + 1
                ELSE IF col = "tags" THEN DictGet(payload, col, NullList)
                ELSE DictGet(payload, col, Null)]))

\* table('contacts').update(updates).eq('id', id).execute()
UpdateRow(rows, id, updates) ==
    [i \in 1..Len(rows) |->
        IF rows[i].id # id THEN rows[i]
        ELSE [col \in Columns |-> IF col \in DOMAIN updates THEN updates[col]
                                  ELSE rows[i][col]]]

\* 'Bez imeni', the name the parsers give an entry that has no name key
L_NoName == <<1041, 1077, 1079, 32, 1080, 1084, 1077, 1085, 1080>>

\* parse_vcard, from the components vobject.readComponents yields: a dict
\* holding the attributes the card has (fn, email, tel, org, title)
ParseVcard(cards) ==
    [i \in 1..Len(cards) |->
        LET vcard == cards[i]
            keys == {"name"}
                    \cup (IF "email" \in DOMAIN vcard THEN {"email"} ELSE {})
                    \cup (IF "tel" \in DOMAIN vcard THEN {"phone"} ELSE {})
                    \cup (IF "org" \in DOMAIN vcard THEN {"company"} ELSE {})
                    \cup (IF "title" \in DOMAIN vcard THEN {"position"} ELSE {})
        IN  [key \in keys |->
                CASE key = "name" -> DictGet(vcard, "fn", L_NoName)
                  [] key = "email" -> vcard.email
                  [] key = "phone" -> vcard.tel
                  [] key = "company" -> IF vcard.org # <<>> THEN vcard.org[1] ELSE Null
                  [] key = "position" -> vcard.title]]

\* parse_csv, from the rows csv.DictReader yields with their keys lowercased:
\* a short line leaves None under the columns it does not reach
ParseCsv(csv_rows) ==
    [i \in 1..Len(csv_rows) |->
        LET row == csv_rows[i]
            tagged == "tags" \in DOMAIN row /\ Truthy(row.tags)
            split == SplitOn(row.tags, 44)
            keys == {"name", "company", "position", "email", "telegram", "phone"}
                    \cup (IF tagged THEN {"tags"} ELSE {})
        IN  [key \in keys |->
                CASE key = "name" -> DictGet(row, "name", L_NoName)
                  [] key = "tags" -> [k \in 1..Len(split) |-> Strip(split[k])]
                  [] OTHER -> DictGet(row, key, Null)]]

\* parse_json, from the list json.loads returns
ParseJson(data) ==
    [i \in 1..Len(data) |->
        LET item == data[i]
        IN  [key \in {"name", "company", "position", "email", "telegram", "phone",
                      "tags"} |->
                CASE key = "name" -> DictGet(item, "name", L_NoName)
                  [] key = "tags" -> DictGet(item, "tags", <<>>)
                  [] OTHER -> DictGet(item, key, Null)]]

\* BatchInsertContacts looking for an existing contact by email only
RECURSIVE BatchInsertContactsByEmail(_, _, _)
BatchInsertContactsByEmail(rows, contact_list, fails) ==
    IF contact_list = <<>>
    THEN [rows |-> rows, imported |-> 0, duplicates |-> 0, errors |-> 0]
    ELSE LET contact == Head(contact_list)
             email == DictGet(contact, "email", Null)
             existing == Truthy(email) /\ \E k \in 1..Len(rows) : rows[k].email = email
             inserted == InsertRow(rows, contact, FALSE)
             outcome == IF Head(fails) THEN "errors"
                        ELSE IF existing THEN "duplicates"
                        ELSE IF inserted.ok THEN "imported"
                        ELSE "errors"
             rest == BatchInsertContactsByEmail(
                         IF outcome = "imported" THEN inserted.value ELSE rows,
                         Tail(contact_list), Tail(fails))
         IN  [rest EXCEPT ![outcome] = @ + 1]

\* batch_insert_contacts: fails[i] tells whether a store call made for the
\* i-th contact raises.  A contact whose email or telegram some row already
\* holds is counted as a duplicate, one whose store call raises as an error,
\* every other one is inserted
RECURSIVE BatchInsertContacts(_, _, _)
BatchInsertContacts(rows, contact_list, fails) ==
    IF contact_list = <<>>
    THEN [rows |-> rows, imported |-> 0, duplicates |-> 0, errors |-> 0]
    ELSE LET contact == Head(contact_list)
             email == DictGet(contact, "email", Null)
             telegram == DictGet(contact, "telegram", Null)
             existing ==
                 \/ Truthy(email) /\ \E k \in 1..Len(rows) : rows[k].email = email
                 \/ Truthy(telegram) /\ \E k \in 1..Len(rows) : rows[k].telegram = telegram
             inserted == InsertRow(rows, contact, FALSE)
             outcome == IF Head(fails) THEN "errors"
                        ELSE IF existing THEN "duplicates"
                        ELSE IF inserted.ok THEN "imported"
                        ELSE "errors"
             rest == BatchInsertContacts(
                         IF outcome = "imported" THEN inserted.value ELSE rows,
                         Tail(contact_list), Tail(fails))
         IN  [rest EXCEPT ![outcome] = @ + 1]

\* what the admin sends to the writing handlers: the arguments of /quick
\* (context.args), of /edit (the identifier and the tokens of the rest), of
\* /profile with the chat Telegram returns for them, and documents (the file
\* name and the entries the format's reader yields)
WriteInputs == [
    quick |-> {
        <<>>,
        <<<<1048, 1074, 1072, 1085, 44>>, <<65, 99, 109, 101, 44>>, <<67, 84, 79, 44>>, <<105, 64, 97, 46, 105, 111, 44>>, <<64, 105, 118>>>>,
        <<<<44>>, <<65, 99, 109, 101>>>>,
        <<<<65, 110, 110, 97, 44>>, <<44>>, <<81, 65, 44>>, <<43, 55>>, <<57, 48, 48, 44>>, <<97, 64, 98>>>>},
    edit |-> {
        [identifier |-> <<64, 105, 118>>, tokens |-> <<<<110, 97, 109, 101, 61>>, <<120>>>>],
        [identifier |-> <<64, 105, 118>>, tokens |-> <<<<110, 97, 109, 101, 61, 32>>, <<98, 105, 111, 61, 100, 101, 118>>>>],
        [identifier |-> <<105, 64, 97, 46, 105, 111>>, tokens |-> <<<<78, 97, 109, 101, 61, 65, 110, 110, 97>>, <<116, 101, 108, 101, 103, 114, 97, 109, 61, 64, 105, 118>>>>],
        [identifier |-> <<1072, 1085>>, tokens |-> <<<<116, 97, 103, 115, 61, 97, 44, 32, 44, 98>>, <<101, 109, 97, 105, 108, 61, 105, 64, 97, 46, 105, 111>>>>]},
    profile |-> {
        [args |-> <<<<64>>>>, chat |-> [full_name |-> Null, title |-> Null,
                                     bio |-> Null, description |-> Null]],
        [args |-> <<<<64, 105, 118>>>>, chat |-> [full_name |-> <<65, 110, 110, 97>>, title |-> Null,
                                       bio |-> <<100, 101, 118>>, description |-> Null]],
        [args |-> <<<<105, 118>>>>, chat |-> [full_name |-> <<>>, title |-> Null,
                                      bio |-> <<>>, description |-> Null]],
        [args |-> <<<<116, 101, 97, 109>>>>, chat |-> [full_name |-> Null, title |-> <<65, 110, 110, 97>>,
                                        bio |-> Null, description |-> <<100, 101, 118>>]]},
    document |-> {
        [file_name |-> <<97, 46, 116, 120, 116>>, entries |-> <<>>],
        [file_name |-> <<97, 46, 106, 115, 111, 110>>, entries |-> <<>>],
        [file_name |-> <<65, 46, 67, 83, 86>>, entries |-> <<[name |-> <<>>, email |-> <<105, 64, 97, 46, 105, 111>>]>>],
        [file_name |-> <<98, 46, 99, 115, 118>>, entries |->
            <<[email |-> <<97, 64, 98, 46, 99>>, telegram |-> Null, tags |-> Null, name |-> Null],
              [email |-> <<>>, telegram |-> <<64, 105, 118>>, tags |-> <<97, 44, 32, 98>>, name |-> <<65, 110, 110, 97>>]>>],
        [file_name |-> <<99, 46, 99, 115, 118>>, entries |-> <<[telegram |-> <<64, 105, 118>>]>>],
        [file_name |-> <<98, 46, 106, 115, 111, 110>>, entries |->
            <<[name |-> <<>>, telegram |-> <<64, 105, 118>>],
              [email |-> <<105, 64, 97, 46, 105, 111>>, tags |-> <<<<97>>, <<98>>>>]>>],
        [file_name |-> <<97, 46, 118, 99, 102>>, entries |->
            <<[fn |-> <<65, 110, 110, 97>>, email |-> <<105, 64, 97, 46, 105, 111>>, org |-> <<<<65, 99, 109, 101>>>>,
               title |-> <<67, 84, 79>>],
              [tel |-> <<43, 55, 32, 57, 48, 48>>, org |-> <<>>]>>]}]

\* the contacts handle_document reads from a document: the parser is chosen by
\* the end of the lowercased file name, and a file of another kind gives none
ParseDocument(document) ==
    LET name == Lower(document.file_name)
        Ext(e) == HasAt(name, Len(name) - Len(e) + 1, e)
    IN  IF Ext(<<46, 118, 99, 102>>) THEN ParseVcard(document.entries)
        ELSE IF Ext(<<46, 99, 115, 118>>) THEN ParseCsv(document.entries)
        ELSE IF Ext(<<46, 106, 115, 111, 110>>) THEN ParseJson(document.entries)
        ELSE <<>>

\* what the handlers' parsers return on each of the inputs
Parsed == [
    quick |-> [args \in WriteInputs.quick |->
                  ParseContactString(JoinWith(<<32>>, args))],
    edit |-> [input \in WriteInputs.edit |-> ParseUpdateFields(input.tokens)],
    document |-> [document \in WriteInputs.document |-> ParseDocument(document)]]

\* the state in which the admin starts sending commands: an empty table, or
\* one that already holds a contact
InitWrites ==
    /\ pc = "writes"
    /\ contacts \in {<<>>, InsertRow(<<>>, [name |-> <<1048, 1074, 1072, 1085, 32, 1055, 1077, 1090, 1088, 1086, 1074>>, telegram |-> <<64, 105, 118>>],
                                     FALSE).value}
    /\ user_data = {}
    /\ interactions = <<>>
    /\ handled = <<>>
    /\ imports = <<>>
    /\ qwords = <<>>
    /\ qseps = <<>>
    /\ query = <<>>
    /\ intent = NoIntent
    /\ records = <<>>
    /\ storeFailed = FALSE
    /\ prompt = Null
    /\ generated = Null
    /\ genCalls = 0
    /\ failure = Null
    /\ result = Null
    /\ limit = DisplayLimit
    /\ contextOut = Null
    /\ steps = <<>>
    /\ reqs = <<>>

\* quick_add_contact: without arguments or without a name nothing is written;
\* otherwise the contact is inserted and, when the insert succeeded, its id
\* becomes the pending-note marker
QuickAdd(args, raised) ==
    /\ pc = "writes"
    /\ Len(contacts) < MaxTableRows
    /\ LET contact_data == Parsed.quick[args]
           inserted == InsertRow(contacts,
                           [key \in {"name", "company", "position", "email", "telegram"} |->
                               DictGet(contact_data, key, Null)],
                           raised)
       IN  IF args = <<>> \/ ~Truthy(DictGet(contact_data, "name", Null)) \/ ~inserted.ok
           THEN UNCHANGED <<contacts, user_data>>
           ELSE /\ contacts' = inserted.value
                /\ user_data' = {inserted.value[Len(inserted.value)].id}
    /\ UNCHANGED <<botVars, reqs, qwords, qseps, query, pc, intent, records, storeFailed,
                   prompt, generated, genCalls, failure, result, limit, contextOut,
                   steps>>

\* edit_contact: the updates parsed from the tokens are applied to the contact
\* the identifier finds; found is 0 when _find_contact returns None (no match,
\* or its select raised)
EditContact(input, found, raised) ==
    /\ pc = "writes"
    /\ found \in FindContact(contacts, input.identifier) \cup {0}
    /\ LET updates == Parsed.edit[input]
       IN  IF DOMAIN updates = {} \/ found = 0 \/ raised
           THEN UNCHANGED contacts
           ELSE contacts' = UpdateRow(contacts, found, updates)
    /\ UNCHANGED <<botVars, user_data, reqs, qwords, qseps, query, pc, intent, records,
                   storeFailed, prompt, generated, genCalls, failure, result, limit,
                   contextOut, steps>>

\* import_profile: the contact holding the handle is updated from the chat, or
\* a contact is created from it; get_chat, the lookup or the write may raise
ImportProfile(input, chatRaised, found, raised) ==
    /\ pc = "writes"
    /\ LET arg == IF input.args = <<>> THEN <<>> ELSE Strip(input.args[1])
           username == IF arg # <<>> /\ arg[1] = 64 THEN Tail(arg) ELSE arg
           telegram_handle == <<64>> \o username
           chat == input.chat
           display_name == IF Truthy(chat.full_name) THEN chat.full_name
                           ELSE IF Truthy(chat.title) THEN chat.title
                           ELSE telegram_handle
           bio_text == IF Truthy(chat.bio) THEN chat.bio ELSE chat.description
           row == CHOOSE r \in {contacts[i] : i \in 1..Len(contacts)} : r.id = found
           keys == {"telegram"}
                   \cup (IF Truthy(display_name) /\ display_name # row.name
                         THEN {"name"} ELSE {})
                   \cup (IF Truthy(bio_text) THEN {"bio"} ELSE {})
           updates == [key \in keys |->
                          CASE key = "telegram" -> telegram_handle
                            [] key = "name" -> display_name
                            [] key = "bio" -> bio_text]
           inserted == InsertRow(contacts,
                           [name |-> display_name, telegram |-> telegram_handle,
                            bio |-> bio_text],
                           raised)
       IN  /\ found \in FindContact(contacts, telegram_handle) \cup {0}
           /\ found = 0 => Len(contacts) < MaxTableRows
           /\ IF username = <<>> \/ chatRaised THEN UNCHANGED contacts
              ELSE IF found # 0
              THEN IF (keys = {"telegram"} /\ row.telegram = telegram_handle) \/ raised
                   THEN UNCHANGED contacts
                   ELSE contacts' = UpdateRow(contacts, found, updates)
              ELSE IF inserted.ok THEN contacts' = inserted.value
              ELSE UNCHANGED contacts
    /\ UNCHANGED <<botVars, user_data, reqs, qwords, qseps, query, pc, intent, records,
                   storeFailed, prompt, generated, genCalls, failure, result, limit,
                   contextOut, steps>>

\* handle_document: a file of a supported format that is not too big is parsed
\* and its contacts are inserted in a batch; stopped tells what ends the
\* handler before the batch: the size check, or the download or the parse
\* raising; no store call is made then, so none fails
HandleDocument(document, stopped, fails) ==
    /\ pc = "writes"
    /\ Len(fails) = Len(document.entries)
    /\ stopped # "no" => \A i \in DOMAIN fails : ~fails[i]
    /\ LET parsed == Parsed.document[document]
           batch == BatchInsertContacts(contacts, parsed, fails)
       IN  IF stopped # "no" \/ parsed = <<>> THEN UNCHANGED contacts
           ELSE /\ Len(batch.rows) <= MaxTableRows
                /\ contacts' = batch.rows
    /\ UNCHANGED <<botVars, user_data, reqs, qwords, qseps, query, pc, intent, records,
                   storeFailed, prompt, generated, genCalls, failure, result, limit,
                   contextOut, steps>>

NextWrites ==
    \/ \E args \in WriteInputs.quick, raised \in BOOLEAN : QuickAdd(args, raised)
    \/ \E input \in WriteInputs.edit, found \in 0..MaxTableRows, raised \in BOOLEAN :
          EditContact(input, found, raised)
    \/ \E input \in WriteInputs.profile, chatRaised \in BOOLEAN,
          found \in 0..MaxTableRows, raised \in BOOLEAN :
          ImportProfile(input, chatRaised, found, raised)
    \/ \E document \in WriteInputs.document, stopped \in {"no", "size", "raise"} :
          \E fails \in [1..Len(document.entries) -> BOOLEAN] :
              HandleDocument(document, stopped, fails)

SpecWrites == InitWrites /\ [][NextWrites]_vars

-----------------------------------------------------------------------------
(* /find (src/bot/handlers.py: find_contact)                                 *)

\* rows a /find store holds at most
MaxFindRows == 2

\* the cap of the plain-text select of /find
FindLimit == 200

\* str(e) of the AttributeError raised by None.lower()
E_Attribute ==
    <<39, 78, 111, 110, 101, 84, 121, 112, 101, 39, 32, 111, 98, 106, 101, 99, 116, 32, 104, 97, 115, 32, 110, 111, 32, 97, 116, 116, 114, 105, 98, 117, 116, 101, 32, 39, 108, 111, 119, 101, 114, 39>>

\* value ILIKE pattern for a pattern without %: the whole value matches, an
\* underscore standing for any one character
IlikeWhole(value, pattern) ==
    /\ value # Null
    /\ Len(value) = Len(pattern)
    /\ \A k \in 1..Len(pattern) :
          pattern[k] = 95 \/ LowerChar(value[k]) = LowerChar(pattern[k])

\* str(tags) of a list of texts that hold no quote and no backslash, and of None
StrOfList(tags) ==
    IF tags = NullList THEN <<78, 111, 110, 101>>
    ELSE <<91>> \o JoinWith(<<44, 32>>, [i \in 1..Len(tags) |-> <<39>> \o tags[i] \o <<39>>]) \o <<93>>

\* the rows the select of find_contact returns, in table order
FindSelect(rows, original_query) ==
    LET search_query == Lower(original_query)
        Hit(row) ==
            IF original_query # <<>> /\ original_query[1] = 64
            THEN IlikeWhole(row.telegram, original_query)
            ELSE IF Contains(original_query, <<64>>) /\ ~Contains(original_query, <<32>>)
            THEN IlikeWhole(row.email, original_query)
            ELSE \/ Ilike(row.name, search_query)
                 \/ Ilike(row.company, search_query)
                 \/ Ilike(row.position, search_query)
        hits == SelectSeq(rows, Hit)
    IN  IF original_query # <<>> /\ original_query[1] = 64 THEN hits
        ELSE IF Contains(original_query, <<64>>) /\ ~Contains(original_query, <<32>>)
        THEN hits
        ELSE Take(hits, FindLimit)

\* the loop of find_contact over response.data: a row is kept when the name,
\* the company or str(tags) holds the lowercased query, or when its telegram
\* or email is the query; .lower() of a name or company that is None raises,
\* which ends the search
RECURSIVE FindFilter(_, _)
FindFilter(data, original_query) ==
    IF data = <<>> THEN Return(<<>>)
    ELSE LET search_query == Lower(original_query)
             contact == Head(data)
             rest == FindFilter(Tail(data), original_query)
             byTelegram == /\ original_query[1] = 64
                           /\ contact.telegram = original_query
             byEmail == /\ Contains(original_query, <<64>>)
                        /\ contact.email = original_query
         IN  IF contact.name = Null THEN Raise(E_Attribute)
             ELSE IF Contains(Lower(contact.name), search_query)
             THEN IF rest.ok THEN Return(<<contact>> \o rest.value) ELSE rest
             ELSE IF contact.company = Null THEN Raise(E_Attribute)
             ELSE IF \/ Contains(Lower(contact.company), search_query)
                     \/ Contains(Lower(StrOfList(contact.tags)), search_query)
                     \/ byTelegram
                     \/ byEmail
             THEN IF rest.ok THEN Return(<<contact>> \o rest.value) ELSE rest
             ELSE rest

\* the stores /find is run on and the arguments it is given
FindInputs == [
    pool |-> {
        [name |-> <<65, 110, 110, 97>>, company |-> <<65, 99, 109, 101>>, position |-> <<67, 84, 79>>, tags |-> <<<<104, 114>>, <<118, 105, 112>>>>,
         telegram |-> <<64, 97, 110, 95, 110, 97>>],
        [name |-> <<72, 114, 97, 110, 116>>, tags |-> <<>>, email |-> <<104, 64, 97, 46, 105, 111>>],
        [name |-> <<73, 118, 97, 110>>, position |-> <<72, 82>>, tags |-> <<>>, telegram |-> <<64, 97, 110, 120, 110, 97>>],
        [name |-> <<80, 101, 116, 114>>, company |-> <<72, 82, 32, 76, 97, 98>>, tags |-> <<<<86, 105, 112>>>>]},
    args |-> {
        <<>>,
        <<<<104, 114>>>>,
        <<<<72, 82>>, <<108, 97, 98>>>>,
        <<<<118, 105, 112>>>>,
        <<<<97, 110>>>>,
        <<<<64, 97, 110, 95, 110, 97>>>>,
        <<<<104, 64, 97, 46, 105, 111>>>>}]

\* a table holding the given contacts, inserted in order
RECURSIVE TableOf(_)
TableOf(payloads) ==
    IF payloads = <<>> THEN <<>>
    ELSE InsertRow(TableOf(SubSeq(payloads, 1, Len(payloads) - 1)),
                   payloads[Len(payloads)], FALSE).value

InitFind ==
    /\ pc = "find"
    /\ \E n \in 0..MaxFindRows : \E payloads \in [1..n -> FindInputs.pool] :
           contacts = TableOf(payloads)
    /\ user_data = {}
    /\ interactions = <<>>
    /\ handled = <<>>
    /\ imports = <<>>
    /\ qwords = <<>>
    /\ qseps = <<>>
    /\ query = <<>>
    /\ intent = NoIntent
    /\ records = <<>>
    /\ storeFailed = FALSE
    /\ prompt = Null
    /\ generated = Null
    /\ genCalls = 0
    /\ failure = Null
    /\ result = Null
    /\ limit = DisplayLimit
    /\ contextOut = Null
    /\ steps = <<>>
    /\ reqs = <<>>

\* find_contact: query is the text searched for, records the results whose
\* number the reply reports, failure the exception the handler caught.
\* Without arguments the handler replies with the usage and searches nothing.
FindCommand(args, raised) ==
    /\ pc = "find"
    /\ LET original_query == Strip(JoinWith(<<32>>, args))
           found == IF raised THEN Raise(E_Store)
                    ELSE FindFilter(FindSelect(contacts, original_query), original_query)
       IN  /\ query' = original_query
           /\ handled' = IF args = <<>> THEN <<"find_contact">>
                         ELSE <<"find_contact", "select">>
           /\ records' = IF args # <<>> /\ found.ok THEN found.value ELSE <<>>
           /\ failure' = IF args # <<>> /\ ~found.ok THEN found.value ELSE Null
    /\ UNCHANGED <<contacts, user_data, interactions, imports, reqs, qwords, qseps,
                   pc, intent, storeFailed, prompt, generated, genCalls, result,
                   limit, contextOut, steps>>

NextFind == \E args \in FindInputs.args, raised \in BOOLEAN : FindCommand(args, raised)

SpecFind == InitFind /\ [][NextFind]_vars

-----------------------------------------------------------------------------
(* Notes: /note (src/bot/handlers.py: add_note), a text message and /skip    *)
(* (src/bot/main.py: handle_message, skip_command).  Updates are handled one *)
(* at a time.                                                                *)

\* number of rows the interactions table can hold
MaxNotes == 2

\* _detect_interaction_type: the first group one of whose words the lowercased
\* note holds names the type
DetectInteractionType(note_text) ==
    LET note_lower == Lower(note_text)
        HoldsAny(words) == \E w \in words : Contains(note_lower, w)
    IN  IF HoldsAny({<<1082, 1091, 1087, 1080, 1083>>, <<1087, 1086, 1082, 1091, 1087, 1082, 1072>>, <<1086, 1087, 1083, 1072, 1090, 1080, 1083>>, <<1079, 1072, 1082, 1072, 1079, 1072, 1083>>, <<1087, 1088, 1086, 1076, 1072, 1083>>}) THEN <<1087, 1086, 1082, 1091, 1087, 1082, 1072>>
        ELSE IF HoldsAny({<<1074, 1089, 1090, 1088, 1077, 1095, 1072>>, <<1074, 1089, 1090, 1088, 1077, 1090, 1080, 1083, 1080, 1089, 1100>>, <<1082, 1086, 1092, 1077>>, <<1086, 1073, 1077, 1076>>, <<1082, 1086, 1085, 1092, 1077, 1088, 1077, 1085, 1094, 1080, 1103>>})
        THEN <<1074, 1089, 1090, 1088, 1077, 1095, 1072>>
        ELSE IF HoldsAny({<<1079, 1074, 1086, 1085, 1086, 1082>>, <<1089, 1086, 1079, 1074, 1086, 1085, 1080, 1083, 1080, 1089, 1100>>, <<1087, 1086, 1079, 1074, 1086, 1085, 1080, 1083>>}) THEN <<1079, 1074, 1086, 1085, 1086, 1082>>
        ELSE IF HoldsAny({<<101, 109, 97, 105, 108>>, <<1087, 1080, 1089, 1100, 1084, 1086>>, <<1085, 1072, 1087, 1080, 1089, 1072, 1083>>}) THEN <<101, 109, 97, 105, 108>>
        ELSE <<1076, 1088, 1091, 1075, 1086, 1077>>

\* NotePayload naming the contact after the one meant
NotePayloadNextContact(contact_id, note_text) ==
    [contact_id |-> contact_id + 1,
     type |-> DetectInteractionType(note_text),
     note |-> note_text]

\* the row a note is stored as (of its columns, contact_id, type and note are
\* modelled)
NotePayload(contact_id, note_text) ==
    [contact_id |-> contact_id,
     type |-> DetectInteractionType(note_text),
     note |-> note_text]

\* HasPending never seeing the marker
HasPendingNever(data) == FALSE

\* 'pending_note_contact_id' in context.user_data
HasPending(data) == data # {}

\* context.user_data['pending_note_contact_id']
PendingId(data) == CHOOSE contact_id \in data : TRUE

\* what the admin sends to the note handlers: the arguments of /note and the
\* texts of plain messages; and the /quick, /edit and document inputs sent
\* in between
NoteInputs == [
    note |-> {<<<<64, 105, 118>>>>, <<<<64, 105, 118>>, <<1079, 1074, 1086, 1085, 1086, 1082>>, <<120>>>>, <<<<64, 110, 111>>, <<104, 105>>>>},
    text |-> {<<1050, 1086, 1092, 1077>>, <<104, 105>>},
    quick |-> {args \in WriteInputs.quick : Len(args) \in {2, 5}},
    edit |-> {input \in WriteInputs.edit : Len(input.tokens[1]) = 9},
    document |-> {document \in WriteInputs.document : document.file_name = <<98, 46, 106, 115, 111, 110>>}]

\* add_note: the note is stored for the contact the identifier finds; found is
\* 0 when _find_contact returns None
AddNote(args, found, raised) ==
    /\ pc = "writes"
    /\ Len(interactions) < MaxNotes
    /\ Len(args) >= 2 => found \in FindContact(contacts, args[1]) \cup {0}
    /\ Len(args) < 2 => found = 0 /\ ~raised
    /\ found = 0 => ~raised
    /\ IF Len(args) < 2 THEN handled' = <<"add_note">> /\ UNCHANGED interactions
       ELSE IF found = 0
       THEN handled' = <<"add_note", "select">> /\ UNCHANGED interactions
       ELSE IF raised
       THEN handled' = <<"add_note", "select", "insert raised">> /\ UNCHANGED interactions
       ELSE /\ handled' = <<"add_note", "select", "insert">>
            /\ interactions' = Append(interactions,
                                   NotePayload(found, JoinWith(<<32>>, Tail(args))))
    /\ UNCHANGED <<contacts, user_data, imports, reqs, qwords, qseps, query, pc,
                   intent, records, storeFailed, prompt, generated, genCalls,
                   failure, result, limit, contextOut, steps>>

\* a text message that is no command reaches handle_message
ReceiveText(user_message) ==
    /\ pc = "writes"
    /\ Len(interactions) < MaxNotes
    /\ pc' = "message"
    /\ query' = user_message
    /\ handled' = <<"handle_message">>
    /\ UNCHANGED <<contacts, user_data, interactions, imports, reqs, qwords, qseps,
                   intent, records, storeFailed, prompt, generated, genCalls,
                   failure, result, limit, contextOut, steps>>

\* handle_message from send_action on; failed names the call that raises, if
\* one does.  With the marker set the text is stored as a note of the pending
\* contact and the marker is deleted after the reply; otherwise the text is
\* handed to process_query.
HandleMessage(failed) ==
    /\ pc = "message"
    /\ pc' = "writes"
    /\ failed = "insert" => HasPending(user_data)
    /\ IF failed = "send_action"
       THEN /\ handled' = handled \o <<"send_action raised">>
            /\ UNCHANGED <<interactions, user_data>>
       ELSE IF HasPending(user_data)
       THEN IF failed = "insert"
            THEN /\ handled' = handled \o <<"send_action", "insert raised", "reply">>
                 /\ UNCHANGED <<interactions, user_data>>
            ELSE /\ interactions' = Append(interactions,
                                        NotePayload(PendingId(user_data), query))
                 /\ IF failed = "reply"
                    THEN /\ handled' = handled \o <<"send_action", "insert",
                                                   "reply raised", "reply">>
                         /\ UNCHANGED user_data
                    ELSE /\ handled' = handled \o <<"send_action", "insert", "reply",
                                                   "del">>
                         /\ user_data' = {}
       ELSE /\ handled' = handled \o <<"send_action", "process_query",
                                      IF failed = "reply" THEN "reply raised"
                                      ELSE "reply">>
            /\ UNCHANGED <<interactions, user_data>>
    /\ UNCHANGED <<contacts, imports, reqs, qwords, qseps, query, intent, records,
                   storeFailed, prompt, generated, genCalls, failure, result, limit,
                   contextOut, steps>>

\* skip_command: the marker is deleted when it is set
SkipCommand ==
    /\ pc = "writes"
    /\ handled' = <<"skip_command">>
    /\ user_data' = {}
    /\ UNCHANGED <<contacts, interactions, imports, reqs, qwords, qseps, query, pc,
                   intent, records, storeFailed, prompt, generated, genCalls,
                   failure, result, limit, contextOut, steps>>

NextNotes ==
    \/ \E args \in NoteInputs.quick, raised \in BOOLEAN : QuickAdd(args, raised)
    \/ \E args \in NoteInputs.note, found \in 0..MaxTableRows, raised \in BOOLEAN :
          AddNote(args, found, raised)
    \/ \E user_message \in NoteInputs.text : ReceiveText(user_message)
    \/ \E failed \in {"no", "send_action", "insert", "reply"} : HandleMessage(failed)
    \/ SkipCommand
    \/ \E input \in NoteInputs.edit, found \in 0..MaxTableRows, raised \in BOOLEAN :
          EditContact(input, found, raised)
    \/ \E document \in NoteInputs.document, stopped \in {"no", "size", "raise"} :
          \E fails \in [1..Len(document.entries) -> BOOLEAN] :
              HandleDocument(document, stopped, fails)

SpecNotes == InitWrites /\ [][NextNotes]_vars

-----------------------------------------------------------------------------
(* Imports: batch_insert_contacts of the bot (src/bot/importer.py) and of    *)
(* the command-line script (src/scripts/import_contacts.py), both writing    *)
(* to the one contacts table.  A store call that raises leaves the table as  *)
(* it was.                                                                   *)

\* ScriptBatchInsert reporting no errors
ScriptBatchInsertNoErrors(rows, contact_list, fails) ==
    [BatchInsertContacts(rows, contact_list, fails) EXCEPT !.errors = 0]

\* batch_insert_contacts of the script: the loop is the importer's; for an
\* empty list the dictionary it returns has no 'duplicates' key
ScriptBatchInsert(rows, contact_list, fails) ==
    IF contact_list = <<>>
    THEN [rows |-> rows, imported |-> 0, errors |-> 0]
    ELSE BatchInsertContacts(rows, contact_list, fails)

\* the contacts a batch is made of: two that share an email, one that shares
\* a telegram handle and has an empty email, one with neither, one with no name
BatchPool == {
    [name |-> <<1048, 1074, 1072, 1085>>, email |-> <<105, 64, 97, 46, 105, 111>>, telegram |-> <<64, 105, 118>>],
    [name |-> <<65, 110, 110, 97>>, email |-> <<105, 64, 97, 46, 105, 111>>, telegram |-> Null],
    [name |-> <<66, 111, 98>>, email |-> <<>>, telegram |-> <<64, 105, 118>>],
    [name |-> <<79, 108, 103, 97>>, company |-> <<65, 99, 109, 101>>],
    [name |-> Null, email |-> <<110, 64, 97, 46, 105, 111>>]}

\* the lists handed to batch_insert_contacts
BatchLists ==
    {<<>>} \cup {<<c>> : c \in BatchPool} \cup {<<c, d>> : c, d \in BatchPool}

\* one call of batch_insert_contacts, by the bot or by the script; imports
\* holds the last call: its list, whether a store call raised, and the
\* dictionary it returned
ImportBatch(variant, contact_list, fails) ==
    /\ pc = "writes"
    /\ LET batch == IF variant = "script"
                    THEN ScriptBatchInsert(contacts, contact_list, fails)
                    ELSE BatchInsertContacts(contacts, contact_list, fails)
       IN  /\ Len(batch.rows) <= MaxTableRows
           /\ contacts' = batch.rows
           /\ imports' = <<[contact_list |-> contact_list,
                            raised |-> \E i \in 1..Len(fails) : fails[i],
                            result |-> [key \in DOMAIN batch \ {"rows"} |-> batch[key]]]>>
    /\ UNCHANGED <<user_data, interactions, handled, reqs, qwords, qseps, query, pc,
                   intent, records, storeFailed, prompt, generated, genCalls,
                   failure, result, limit, contextOut, steps>>

NextBatch ==
    \E variant \in {"bot", "script"}, contact_list \in BatchLists :
        \E fails \in [1..Len(contact_list) -> BOOLEAN] :
            ImportBatch(variant, contact_list, fails)

SpecBatch == InitWrites /\ [][NextBatch]_vars

-----------------------------------------------------------------------------
(* Dispatch (src/bot/main.py: main).  Every handler is registered in the one *)
(* group 0, and of the handlers of a group the library runs the first,       *)
(* in registration order, whose check accepts the update.                    *)

\* the admin's Telegram user id
ADMIN_ID == 1031225569

\* HandlersInOrder with the guard against strangers registered last
HandlersGuardLast ==
    <<[callback |-> "start_command", accepts |-> <<115, 116, 97, 114, 116>>],
      [callback |-> "help_command", accepts |-> <<104, 101, 108, 112>>],
      [callback |-> "stats_command", accepts |-> <<115, 116, 97, 116, 115>>],
      [callback |-> "skip_command", accepts |-> <<115, 107, 105, 112>>],
      [callback |-> "add_contact_interactive", accepts |-> <<97, 100, 100>>],
      [callback |-> "quick_add_contact", accepts |-> <<113, 117, 105, 99, 107>>],
      [callback |-> "add_note", accepts |-> <<110, 111, 116, 101>>],
      [callback |-> "find_contact", accepts |-> <<102, 105, 110, 100>>],
      [callback |-> "list_recent_contacts", accepts |-> <<108, 105, 115, 116>>],
      [callback |-> "handle_document", accepts |-> <<68, 111, 99, 117, 109, 101, 110, 116, 46, 65, 76, 76>>],
      [callback |-> "handle_message", accepts |-> <<84, 69, 88, 84, 32, 38, 32, 126, 67, 79, 77, 77, 65, 78, 68>>],
      [callback |-> "unauthorized_handler", accepts |-> <<126, 85, 115, 101, 114>>]>>

\* the handlers in the order main registers them: the callback and what its
\* handler accepts, a filter or, for a CommandHandler, the command
HandlersInOrder ==
    <<[callback |-> "unauthorized_handler", accepts |-> <<126, 85, 115, 101, 114>>],
      [callback |-> "start_command", accepts |-> <<115, 116, 97, 114, 116>>],
      [callback |-> "help_command", accepts |-> <<104, 101, 108, 112>>],
      [callback |-> "stats_command", accepts |-> <<115, 116, 97, 116, 115>>],
      [callback |-> "skip_command", accepts |-> <<115, 107, 105, 112>>],
      [callback |-> "add_contact_interactive", accepts |-> <<97, 100, 100>>],
      [callback |-> "quick_add_contact", accepts |-> <<113, 117, 105, 99, 107>>],
      [callback |-> "add_note", accepts |-> <<110, 111, 116, 101>>],
      [callback |-> "find_contact", accepts |-> <<102, 105, 110, 100>>],
      [callback |-> "list_recent_contacts", accepts |-> <<108, 105, 115, 116>>],
      [callback |-> "handle_document", accepts |-> <<68, 111, 99, 117, 109, 101, 110, 116, 46, 65, 76, 76>>],
      [callback |-> "handle_message", accepts |-> <<84, 69, 88, 84, 32, 38, 32, 126, 67, 79, 77, 77, 65, 78, 68>>]>>

\* the message starts with a bot_command entity: a slash followed by a
\* command character
StartsWithCommand(text) ==
    /\ text # Null
    /\ Len(text) >= 2
    /\ text[1] = 47
    /\ IsLatinUpper(text[2]) \/ IsLatinLower(text[2]) \/ IsDigit(text[2]) \/ text[2] = 95

\* the command a message starts with, as CommandHandler compares it
CommandOf(text) == Lower(Tail(SplitOn(text, 32)[1]))

\* check_update of a handler: a MessageHandler asks its filter about the
\* message or edited message of the update, a CommandHandler compares the
\* command.  from_user holds the sender's id, or nothing when the message has
\* no sender
Accepts(handler, update) ==
    /\ update.kind \in {"message", "edited_message"}
    /\ IF handler.accepts = <<126, 85, 115, 101, 114>>
       THEN ~(update.from_user # {} /\ update.from_user \subseteq {ADMIN_ID})
       ELSE IF handler.accepts = <<68, 111, 99, 117, 109, 101, 110, 116, 46, 65, 76, 76>> THEN update.document
       ELSE IF handler.accepts = <<84, 69, 88, 84, 32, 38, 32, 126, 67, 79, 77, 77, 65, 78, 68>>
       THEN Truthy(update.text) /\ ~StartsWithCommand(update.text)
       ELSE StartsWithCommand(update.text) /\ CommandOf(update.text) = handler.accepts

\* the callbacks run for an update: that of the first handler accepting it
Dispatched(update) ==
    LET accepting == {i \in 1..Len(HandlersInOrder) : Accepts(HandlersInOrder[i], update)}
    IN  IF accepting = {} THEN <<>>
        ELSE <<HandlersInOrder[Min(accepting)].callback>>

\* the calls the code of a callback makes to the store, to the generation
\* service and to Telegram
MayCall(callback) ==
    CASE callback \in {"unauthorized_handler", "start_command", "help_command",
                       "skip_command", "add_contact_interactive"} -> {"reply_text"}
      [] callback \in {"stats_command", "find_contact", "list_recent_contacts"}
           -> {"select", "reply_text"}
      [] callback = "quick_add_contact" -> {"insert", "reply_text"}
      [] callback = "add_note" -> {"select", "insert", "reply_text"}
      [] callback = "handle_document" -> {"get_file", "select", "insert", "reply_text"}
      [] callback = "handle_message"
           -> {"send_action", "insert", "select", "generate_content", "reply_text"}

\* the updates Telegram delivers: who sent it (the admin, someone else, no
\* user), and a text, a document or neither
DispatchInputs == [
    kind |-> {"message", "edited_message", "callback_query"},
    from_user |-> {{ADMIN_ID}, {ADMIN_ID + 1}, {}},
    text |-> {Null, <<47, 115, 116, 97, 114, 116>>, <<47, 104, 101, 108, 112>>, <<47, 115, 116, 97, 116, 115>>, <<47, 115, 107, 105, 112>>, <<47, 97, 100, 100>>, <<47, 113, 117, 105, 99, 107, 32, 1048, 1074, 1072, 1085, 44, 32, 65, 99, 109, 101>>,
              <<47, 110, 111, 116, 101, 32, 64, 105, 118, 32, 104, 105>>, <<47, 102, 105, 110, 100, 32, 104, 114>>, <<47, 108, 105, 115, 116>>, <<47, 101, 100, 105, 116, 32, 64, 105, 118, 32, 98, 105, 111, 61, 120>>, <<47, 112, 114, 111, 102, 105, 108, 101, 32, 64, 105, 118>>,
              <<47, 83, 84, 65, 82, 84>>, <<47>>, <<47, 32, 104, 101, 108, 112>>, <<104, 101, 108, 108, 111>>, <<1050, 1090, 1086, 32, 1080, 1079, 32, 72, 82, 63>>}]

Updates ==
    {u \in [kind : DispatchInputs.kind, from_user : DispatchInputs.from_user,
            text : DispatchInputs.text, document : BOOLEAN] :
        /\ u.document => u.text = Null
        /\ u.kind = "callback_query" => u.text = Null /\ ~u.document}

InitDispatch ==
    /\ pc = "dispatch"
    /\ contacts = <<>>
    /\ user_data = {}
    /\ interactions = <<>>
    /\ handled = <<>>
    /\ imports = <<>>
    /\ qwords = <<>>
    /\ qseps = <<>>
    /\ query = <<>>
    /\ intent = NoIntent
    /\ records = <<>>
    /\ storeFailed = FALSE
    /\ prompt = Null
    /\ generated = Null
    /\ genCalls = 0
    /\ failure = Null
    /\ result = Null
    /\ limit = DisplayLimit
    /\ contextOut = Null
    /\ steps = <<>>
    /\ reqs = <<>>

\* Application.process_update: reqs holds the update, handled the callbacks
\* run for it
ProcessUpdate(update) ==
    /\ pc = "dispatch"
    /\ reqs' = <<update>>
    /\ handled' = Dispatched(update)
    /\ UNCHANGED <<contacts, user_data, interactions, imports, qwords, qseps, query,
                   pc, intent, records, storeFailed, prompt, generated, genCalls,
                   failure, result, limit, contextOut, steps>>

NextDispatch == \E update \in Updates : ProcessUpdate(update)

SpecDispatch == InitDispatch /\ [][NextDispatch]_vars

-----------------------------------------------------------------------------
(* Properties of process_query *)

\* the store call of the request is over
Fetched == pc \notin {"start", "fetch"}

\* the request ended through the generation call raising
GenerationFailed == genCalls >= 1 /\ failure # Null

\* C1: whenever the search has returned an empty list, the request is at its
\* "not found" exit: the generation call is never made, no prompt is built,
\* and the string returned is the fixed "not found" message.
C1_EmptySearchNotFound ==
    (Fetched /\ records = <<>>) =>
        /\ pc \in {"fetched", "done"}
        /\ genCalls = 0
        /\ prompt = Null
        /\ generated = Null
        /\ pc = "done" => result = NotFoundMsg

\* a search that succeeded over a non-empty store, found nothing, and ended
\* in the "not found" message
C1_Witness ==
    /\ pc = "done"
    /\ ~storeFailed
    /\ contacts # <<>>
    /\ records = <<>>
    /\ result = NotFoundMsg

\* C2 as stated: when the generation call fails the string returned is the
\* same whatever the failure was, that is, it is the string every failure
\* of the generation call gives.
C2_FixedErrorMessage ==
    (pc = "done" /\ GenerationFailed) =>
        \A e \in GenErrors : result = ErrorMessage(e)

\* C2 amended: when the generation call fails, process_query returns the
\* fixed prefix followed by the text of the failure, the generation call has
\* been made exactly once (it is never made twice in a request), and nothing
\* generated is returned.
C2_GenerationFailure ==
    /\ genCalls <= 1
    /\ GenerationFailed =>
         /\ pc = "done"
         /\ genCalls = 1
         /\ generated = Null
         /\ result = ErrorPrefix \o failure
         /\ ~HasAt(result, 1, Banner)

\* a request whose generation call failed with the second kind of failure
C2_Witness ==
    /\ pc = "done"
    /\ genCalls = 1
    /\ failure = E_Blocked
    /\ result = ErrorPrefix \o E_Blocked

\* C3: when the store call fails, whatever the intent, the search result is
\* empty, nothing is caught by process_query, and the request ends in the
\* "not found" message.
C3_StoreFailureNotFound ==
    (Fetched /\ storeFailed) =>
        /\ records = <<>>
        /\ failure = Null
        /\ pc \in {"fetched", "done"}
        /\ pc = "done" => result = NotFoundMsg

\* a company search over a store holding a matching row, whose store call
\* failed and which ended in the "not found" message
C3_Witness ==
    /\ pc = "done"
    /\ storeFailed
    /\ intent.type = "company_search"
    /\ \E i \in 1..Len(contacts) : Ilike(contacts[i].company, intent.filter)
    /\ result = NotFoundMsg

\* the terminal outcomes of process_query that hold of the current state
Outcomes ==
    {o \in {"not_found", "error", "answer"} :
        \/ o = "not_found" /\ result = NotFoundMsg
        \/ o = "error" /\ failure # Null /\ result = ErrorMessage(failure)
        \/ o = "answer" /\ generated # Null /\ result = Banner \o generated}

\* C4: no exception leaves process_query: a request is at one of the steps
\* of process_query or has returned, and one that has returned gave exactly
\* one of the "not found" message, the error message, the banner followed by
\* the generated text.
C4_ThreeOutcomes ==
    /\ pc \in {"start", "fetch", "fetched", "generate", "format", "done"}
    /\ pc = "done" <=> result # Null
    /\ pc = "done" => Cardinality(Outcomes) = 1

\* a request over rows with NULL tags: the TypeError of _prepare_context
\* ended in the error message
C4_Witness ==
    /\ pc = "done"
    /\ ~storeFailed
    /\ genCalls = 0
    /\ failure = E_Join
    /\ Outcomes = {"error"}

-----------------------------------------------------------------------------
(* Properties of _analyze_query *)

IntentKinds ==
    {"name_search", "company_search", "position_search", "tag_search", "general"}

Analyzed == pc = "fetch"

NumWords == Len(qwords)

\* a marker word iz / v typed with whitespace and a further word after it
MarkerPhraseAt(k) ==
    /\ k < NumWords
    /\ qwords[k] \in {W_iz, W_v}
    /\ qseps[k] = SepSpace

\* a word typed with whitespace and the word kompaniya after it
CompanyWordPhraseAt(k) ==
    /\ k < NumWords
    /\ qwords[k + 1] = W_kompaniya
    /\ qseps[k] = SepSpace

\* a word of the query is one of the position keywords
HasRoleKeywordWord ==
    \E k \in 1..NumWords : \E j \in 1..Len(PositionKeywords) :
        Lower(qwords[k]) = PositionKeywords[j]

HasCapitalizedWord == \E k \in 1..NumWords : IsUpper(qwords[k][1])

\* C5: _analyze_query returns, for every query, an intent whose kind is one
\* of the five kinds.
C5_IntentKind == Analyzed => intent.type \in IntentKinds

\* a three-word query classified general
C5_Witness ==
    /\ Analyzed
    /\ NumWords = 3
    /\ intent.type = "general"

EndsWithMarkerPhrase ==
    /\ NumWords >= 2
    /\ MarkerPhraseAt(NumWords - 1)
    /\ qwords[NumWords] \notin {W_iz, W_v, W_kompaniya}
    /\ \A k \in 1..NumWords : qwords[k] \in {W_iz, W_v} => k = NumWords - 1

\* the query ends with a name followed by whitespace and the word kompaniya,
\* and holds no marker word
EndsWithCompanyWord ==
    /\ NumWords >= 2
    /\ CompanyWordPhraseAt(NumWords - 1)
    /\ qwords[NumWords - 1] \notin {W_iz, W_v, W_kompaniya}
    /\ \A k \in 1..NumWords : qwords[k] \notin {W_iz, W_v}

\* C7 as stated: for a query with a company-marker phrase (iz / v followed by
\* the company name X, or X followed by kompaniya), _analyze_query returns a
\* company search whose filter is exactly X.
C7_FilterIsCompanyName ==
    Analyzed =>
        /\ EndsWithMarkerPhrase =>
             /\ intent.type = "company_search"
             /\ intent.filter = qwords[NumWords]
        /\ EndsWithCompanyWord =>
             /\ intent.type = "company_search"
             /\ intent.filter = qwords[NumWords - 1]

\* the name-rule result the code computes from the words of the query
NameFilter ==
    IF Capitalized(SearchTerms(qwords)) # <<>>
    THEN Capitalized(SearchTerms(qwords))
    ELSE SearchTerms(qwords)

\* C8 as stated: a query with no marker word iz / v, without the word
\* kompaniya, without a role keyword, in which a word longer than one letter
\* outside the stop words survives, is a name search whose filter is the
\* capitalized surviving words, or all surviving words if none is
\* capitalized.
C8_NameSearchWithoutMarkers ==
    (/\ Analyzed
     /\ \A k \in 1..NumWords : qwords[k] \notin {W_iz, W_v, W_kompaniya}
     /\ KeywordHits(Strip(Lower(query))) = {}
     /\ SearchTerms(qwords) # <<>>)
    => /\ intent.type = "name_search"
       /\ intent.filter = NameFilter

AllStopWords == \A k \in 1..NumWords : Lower(qwords[k]) \in StopWords

\* C9 as stated: every query whose words all belong to the stop-word set is
\* classified general.
C9_StopWordsGeneral ==
    (Analyzed /\ AllStopWords) => intent.type = "general"

\* C9 amended: every query whose words all belong to the stop-word set, and
\* in which no marker word iz / v is directly followed by whitespace, is
\* classified general (its filter is the query itself).
C9_StopWordsNoMarkerGeneral ==
    (/\ Analyzed
     /\ AllStopWords
     /\ \A k \in 1..(NumWords - 1) :
           qwords[k] \in {W_iz, W_v} => ~IsSpace(qseps[k][1]))
    => intent = Intent("general", query)

\* a query of stop words only, holding the marker word iz followed by a
\* comma, classified general
C9_Witness ==
    /\ Analyzed
    /\ AllStopWords
    /\ \E k \in 1..(NumWords - 1) : qwords[k] = W_iz /\ qseps[k] = SepComma
    /\ intent.type = "general"

-----------------------------------------------------------------------------
(* Properties of _fetch_filtered_contacts *)

\* the name of row holds term, letters compared without case
NameHolds(row, term) == Contains(Lower(row.name), Lower(term))

\* the ids of the rows of the store whose name holds one of the terms
IdsByAnyTerm(terms) ==
    {contacts[i].id : i \in
        {i \in 1..Len(contacts) :
            \E t \in 1..Len(terms) : NameHolds(contacts[i], terms[t])}}

\* C10: a name search with a non-empty list of terms whose store call
\* succeeded returns exactly the rows whose name holds at least one of the
\* terms, each once, however many they are.
C10_NameSearchUnion ==
    (/\ Fetched
     /\ ~storeFailed
     /\ intent.type = "name_search"
     /\ intent.filter # <<>>)
    => /\ {records[i].id : i \in 1..Len(records)} = IdsByAnyTerm(intent.filter)
       /\ Len(records) = Cardinality(IdsByAnyTerm(intent.filter))

\* a name search with two terms that returned two rows, each holding only
\* one of the terms
C10_Witness ==
    /\ pc = "fetched"
    /\ ~storeFailed
    /\ intent.type = "name_search"
    /\ Len(intent.filter) = 2
    /\ Len(records) = 2
    /\ \E i \in 1..2 : ~NameHolds(records[i], intent.filter[1])
    /\ \E i \in 1..2 : ~NameHolds(records[i], intent.filter[2])

-----------------------------------------------------------------------------
(* Properties of the company and position searches *)

\* the text x occurs in the optional text value, letters compared without case
HoldsFilter(value, x) == value # Null /\ Contains(Lower(value), Lower(x))

\* ids of the rows of the store whose company (resp. position) holds the text x
IdsByCompany(x) ==
    {contacts[i].id : i \in {j \in 1..Len(contacts) :
                                HoldsFilter(contacts[j].company, x)}}
IdsByPosition(x) ==
    {contacts[i].id : i \in {j \in 1..Len(contacts) :
                                HoldsFilter(contacts[j].position, x)}}

RecordIds == {records[i].id : i \in 1..Len(records)}

\* C11: a company search (resp. position search) with a non-empty filter whose
\* store call succeeded returns exactly the contacts whose company (resp.
\* position) holds the filter as a substring, letters compared without case:
\* every such contact, no other contact, each once, however many they are.
C11_FieldSearchExact ==
    (/\ Fetched
     /\ ~storeFailed
     /\ intent.filter # <<>>)
    => /\ intent.type = "company_search"
          => /\ RecordIds = IdsByCompany(intent.filter)
             /\ Len(records) = Cardinality(IdsByCompany(intent.filter))
       /\ intent.type = "position_search"
          => /\ RecordIds = IdsByPosition(intent.filter)
             /\ Len(records) = Cardinality(IdsByPosition(intent.filter))

-----------------------------------------------------------------------------
(* Properties of the general search *)

\* C12: a general search whose store call succeeded looks at no field of the
\* contacts: it returns min(GeneralLimit, store size) rows, which are the most
\* recently created rows of the store, the most recent first, so that no row
\* older than the GeneralLimit most recent ones is returned.
C12_GeneralMostRecent ==
    (/\ Fetched
     /\ ~storeFailed
     /\ intent.type = "general")
    => /\ Len(records) = Min({GeneralLimit, Len(contacts)})
       /\ \A i \in 1..Len(records) : records[i] = contacts[Len(contacts) + 1 - i]

\* a general search over a store that holds more rows than the cap: the cap's
\* worth of rows came back, the newest row first, the oldest row left out
C12_Witness ==
    /\ pc = "fetched"
    /\ ~storeFailed
    /\ intent.type = "general"
    /\ Len(contacts) > GeneralLimit
    /\ Len(records) = GeneralLimit
    /\ records[1].id = Len(contacts)
    /\ \A i \in 1..Len(records) : records[i].id # 1

-----------------------------------------------------------------------------
(* Properties of _prepare_context *)

\* the lines of a text: its parts between newlines
RECURSIVE SplitLines(_)
SplitLines(text) ==
    IF \A k \in 1..Len(text) : text[k] # 10 THEN <<text>>
    ELSE LET k == Min({j \in 1..Len(text) : text[j] = 10})
         IN  <<SubSeq(text, 1, k - 1)>> \o SplitLines(SubSeq(text, k + 1, Len(text)))

\* the call of _prepare_context has returned a text
ContextReturned == pc = "done" /\ contextOut # Null

\* "... i eshchyo <n> kontaktov", the summary line that states n
SummaryLine(n) == Tail(L_MoreHead) \o Str(n) \o L_MoreTail

\* the text is a summary line, whatever it states
IsSummaryLine(line) == HasAt(line, 1, Tail(L_MoreHead))

\* C13: _prepare_context(records, limit) on n records returns a text of
\* min(n, limit) record lines, line i starting with the number i and the name
\* of the i-th record of the input, followed by exactly one summary line that
\* states n - limit when n > limit, and by no summary line when n <= limit.
C13_ContextLineCount ==
    ContextReturned =>
        LET n == Len(records)
            m == Min({n, limit})
            ls == SplitLines(contextOut)
            recordLines == SelectSeq(ls, LAMBDA l : l # <<>> /\ ~IsSummaryLine(l))
            summaryLines == SelectSeq(ls, IsSummaryLine)
        IN  /\ Len(recordLines) = m
            /\ \A i \in 1..m :
                 /\ recordLines[i] = ls[i]
                 /\ HasAt(ls[i], 1, Str(i) \o L_Dot \o records[i].name)
            /\ IF n > limit
               THEN /\ summaryLines = <<SummaryLine(n - limit)>>
                    /\ ls[Len(ls)] = SummaryLine(n - limit)
               ELSE summaryLines = <<>>

\* 15 records with limit 10: 10 record lines and a summary line stating 5
C13_Witness ==
    /\ ContextReturned
    /\ Len(records) = 15
    /\ limit = 10
    /\ Len(SelectSeq(SplitLines(contextOut), LAMBDA l : l # <<>>)) = 11
    /\ SplitLines(contextOut)[12] = SummaryLine(5)

-----------------------------------------------------------------------------
(* Properties of the context inside process_query *)

\* the text ends with the text p
EndsWith(text, p) ==
    Len(p) <= Len(text) /\ SubSeq(text, Len(text) - Len(p) + 1, Len(text)) = p

\* process_query has built the context and the prompt of its request
ContextBuilt == pc \in {"generate", "format", "done"} /\ contextOut # Null

\* the closing line of the prompt that states n omitted contacts
PromptMoreLine(n) == PromptMoreHead \o Str(n) \o PromptMoreTail

\* C14 as stated: whenever the search returned more records than the display
\* limit, the context handed to the generation step ends with the summary line
\* that states how many records were left out.
C14_ContextEndsWithSummary ==
    (ContextBuilt /\ Len(records) > DisplayLimit)
    => EndsWith(contextOut, SummaryLine(Len(records) - DisplayLimit))

\* C14 amended: the context handed to the generation step is built from the
\* first DisplayLimit records only, so it holds DisplayLimit record lines and
\* never a summary line; when the search returned more records than the
\* display limit, the number left out is stated by the prompt itself, in its
\* closing line, together with the total found in its first line; when it
\* returned no more than the display limit the prompt has no such line.
C14_OmittedCountInPrompt ==
    ContextBuilt =>
        LET ls == SplitLines(contextOut)
            total_found == Len(records)
        IN  /\ Len(ls) = Min({total_found, DisplayLimit})
            /\ \A i \in 1..Len(ls) : ~IsSummaryLine(ls[i])
            /\ HasAt(prompt, 1, PromptHead \o Str(total_found) \o PromptQuery)
            /\ Contains(prompt, contextOut)
            /\ total_found > DisplayLimit
               => Contains(prompt, PromptMoreLine(total_found - DisplayLimit))
            /\ total_found <= DisplayLimit => ~Contains(prompt, PromptMoreHead)

\* a request whose search returned more than the display limit and whose
\* prompt has been built
C14_Witness ==
    /\ pc = "generate"
    /\ contextOut # Null
    /\ Len(records) > DisplayLimit + 1
    /\ Contains(prompt, PromptMoreLine(Len(records) - DisplayLimit))

-----------------------------------------------------------------------------
(* Properties of the biography in a context line *)

\* where the text p first occurs in the text s; Len(s) + 1 when it does not
FirstIndex(s, p) ==
    LET at == {i \in 1..Len(s) : HasAt(s, i, p)}
    IN  IF at = {} THEN Len(s) + 1 ELSE Min(at)

\* the biography as a context line shows it: what follows the biography label,
\* up to the next field of the line
RenderedBio(line) ==
    LET rest == SubSeq(line, FirstIndex(line, L_Bio) + Len(L_Bio), Len(line))
    IN  SubSeq(rest, 1, FirstIndex(rest, L_Bar) - 1)

\* C15: in the text _prepare_context returns, a biography of at most
\* BioBudget (120) characters is shown as it is, and a longer one is shown as a
\* proper prefix of it followed by the ellipsis, the whole never longer than
\* BioBudget characters.
C15_BioWithinBudget ==
    ContextReturned =>
        LET ls == SplitLines(contextOut)
        IN  \A i \in 1..Min({Len(records), limit}) :
              LET bio == records[i].bio
                  shown == RenderedBio(ls[i])
                  kept == Len(shown) - Len(L_Ellipsis)
              IN  Truthy(bio) =>
                    /\ Contains(ls[i], L_Bio)
                    /\ Len(bio) <= BioBudget => shown = bio
                    /\ Len(bio) > BioBudget
                       => /\ Len(shown) <= BioBudget
                          /\ kept >= 0
                          /\ shown = SubSeq(bio, 1, kept) \o L_Ellipsis

\* a biography one character over the budget, shown cut to the budget with
\* the ellipsis at its end
C15_Witness ==
    /\ ContextReturned
    /\ Len(records) = 1
    /\ records[1].bio # Null
    /\ Len(records[1].bio) = BioBudget + 1
    /\ Len(RenderedBio(contextOut)) = BioBudget
    /\ EndsWith(RenderedBio(contextOut), L_Ellipsis)

-----------------------------------------------------------------------------
(* Properties of the fields of a context line *)

\* the labels that announce a field in a line
FieldLabel(f) ==
    CASE f = "tags" -> L_Tags
      [] f = "bio" -> L_Bio
      [] f = "last_interaction_date" -> L_Last
      [] f = "telegram" -> L_TG
      [] f = "email" -> L_Email
      [] f = "phone" -> L_Phone

TextFields ==
    {"company", "position", "last_interaction_date", "telegram", "email", "phone"}

\* the line shows every populated field of the contact other than position
ShowsPopulated(line, contact) ==
    /\ Contains(line, contact.name)
    /\ \A f \in TextFields \ {"position"} :
         Truthy(contact[f]) => Contains(line, contact[f])
    /\ \A k \in 1..Len(contact.tags) : Contains(line, contact.tags[k])
    /\ Truthy(contact.bio)
       => Contains(line, SubSeq(contact.bio, 1, Min({Len(contact.bio), BioKept})))

\* a field that is not populated leaves no trace in the line
OmitsUnpopulated(line, contact) ==
    /\ \A f \in {"bio", "last_interaction_date", "telegram", "email", "phone"} :
         ~Truthy(contact[f]) => ~Contains(line, FieldLabel(f))
    /\ contact.tags = <<>> => ~Contains(line, FieldLabel("tags"))
    /\ (~Truthy(contact.company) /\ ~Truthy(contact.position))
       => ~Contains(line, L_Open)

\* every line of the returned text shows and omits as ShowsPopulated and
\* OmitsUnpopulated say
LinesShowFields ==
    ContextReturned =>
        \A i \in 1..Min({Len(records), limit}) :
            /\ ShowsPopulated(SplitLines(contextOut)[i], records[i])
            /\ OmitsUnpopulated(SplitLines(contextOut)[i], records[i])

\* C16: every record line of the text _prepare_context returns holds the
\* contact's name and every populated field among company, position, tags,
\* biography (within its budget), last-interaction date, messaging handle,
\* email and phone; a populated position is shown whether or not the company
\* is populated; a field that is not populated adds nothing to the line.
C16_LineShowsPopulatedFields ==
    /\ LinesShowFields
    /\ ContextReturned =>
         \A i \in 1..Min({Len(records), limit}) :
            Truthy(records[i].position)
            => Contains(SplitLines(contextOut)[i], records[i].position)

-----------------------------------------------------------------------------
(* Properties of the order of the steps *)

\* the steps of process_query in the order of its statements
StepOrder == <<"classify", "search", "context", "generate", "format">>

Ran(step) == \E k \in 1..Len(steps) : steps[k] = step

\* C17: the steps a request has run are the first k steps of classify,
\* search, build context, generate, format, for some k: in that order, none
\* skipped, none run twice; a step has run only when the step before it had
\* returned its value; context and generate have run only after the search
\* returned a non-empty list, and format only after the generation call
\* returned a text.
C17_StepsInOrder ==
    /\ \E k \in 0..Len(StepOrder) : steps = SubSeq(StepOrder, 1, k)
    /\ Ran("search") => intent # NoIntent
    /\ Ran("context") => Fetched /\ records # <<>>
    /\ Ran("generate") => records # <<>> /\ contextOut # Null /\ prompt # Null
    /\ Ran("format") => generated # Null /\ failure = Null /\ genCalls = 1

\* a request that ran all five steps and returned the formatted answer
C17_Witness ==
    /\ pc = "done"
    /\ steps = StepOrder
    /\ result = FormatResponse(generated)

-----------------------------------------------------------------------------
(* Properties of the store *)

\* C18: no step of process_query changes the store: whatever the query and
\* however the request ends (not found, failure, answer), the rows of the
\* store after a step are the rows before it.
C18_StoreNeverWritten == [][contacts' = contacts]_vars

\* a request that searched a non-empty store and returned an answer
C18_Witness ==
    /\ pc = "done"
    /\ contacts # <<>>
    /\ Ran("search")
    /\ ~storeFailed
    /\ result = FormatResponse(generated)

-----------------------------------------------------------------------------
(* Properties of requests running side by side *)

\* what process_query returns for the query q over the store rows when it
\* runs alone, its store call raising or not (raised), its generation call
\* raising err (Null when it did not) or returning the text gen
SoloResult(q, rows, raised, err, gen) ==
    LET a == AnalyzeQuery(q)
        found == IF raised THEN <<>> ELSE FetchFiltered(a.type, a.filter, rows)
        ctx == PrepareContext(Take(found, DisplayLimit), DisplayLimit)
    IN  IF found = <<>> THEN NotFoundMsg
        ELSE IF ~ctx.ok THEN ErrorMessage(ctx.value)
        ELSE IF err # Null THEN ErrorMessage(err)
        ELSE FormatResponse(gen)

\* the prompt process_query hands to the generation call when it runs alone
SoloPrompt(q, rows) ==
    LET a == AnalyzeQuery(q)
        found == FetchFiltered(a.type, a.filter, rows)
        shown == Take(found, DisplayLimit)
    IN  BuildPrompt(q, Len(found), Len(shown),
                    PrepareContext(shown, DisplayLimit).value)

\* the one-request specification returns SoloResult
SoloResultIsSolo ==
    pc = "done" => result = SoloResult(query, contacts, storeFailed,
                                       IF genCalls = 1 THEN failure ELSE Null,
                                       generated)

\* C19: with requests interleaved in any order over the one store, every
\* request that has ended returned what it returns when it runs alone on the
\* same query and store with the same answers of its own store call and its
\* own generation call, whatever the other requests did and however they
\* ended; and the prompt it handed to the generation call is the one it hands
\* over when alone.
C19_RequestsIndependent ==
    \A r \in DOMAIN reqs :
        /\ reqs[r].prompt # Null => reqs[r].prompt = SoloPrompt(reqs[r].query, contacts)
        /\ reqs[r].pc = "done"
           => reqs[r].result =
                SoloResult(reqs[r].query, contacts, reqs[r].storeFailed,
                           IF reqs[r].genCalls = 1 THEN reqs[r].failure ELSE Null,
                           reqs[r].generated)

\* two requests ended, one on a failure of its store call or of its
\* generation call, the other with the answer to its own query
C19_Witness ==
    /\ reqs # <<>>
    /\ \A r \in Requests : reqs[r].pc = "done"
    /\ \E r1, r2 \in Requests :
         /\ r1 # r2
         /\ reqs[r1].genCalls = 1 /\ reqs[r1].failure \in GenErrors
         /\ reqs[r2].failure = Null /\ reqs[r2].generated # Null
         /\ reqs[r2].result = FormatResponse(reqs[r2].generated)
         /\ reqs[r1].query # reqs[r2].query

-----------------------------------------------------------------------------
(* C20 *)

\* C20: after any sequence of /quick, /edit, /profile and document imports,
\* every row of the contacts table has a name that is present and not empty
C20_EveryContactNamed ==
    pc = "writes" => \A i \in 1..Len(contacts) : Truthy(contacts[i].name)

-----------------------------------------------------------------------------
(* C21 *)

\* the text holds the query, letter case apart
HoldsQuery(text, q) == text # Null /\ Contains(Lower(text), Lower(q))

\* the ids of the contacts whose name, company or one of whose tags holds the query
IdsMatching(rows, q) ==
    {rows[i].id : i \in {k \in 1..Len(rows) :
        \/ HoldsQuery(rows[k].name, q)
        \/ HoldsQuery(rows[k].company, q)
        \/ /\ rows[k].tags # NullList
           /\ \E t \in 1..Len(rows[k].tags) : HoldsQuery(rows[k].tags[t], q)}}

\* C21: a /find with a plain-text query (no @ in it) whose select returned
\* reports exactly the contacts whose name, company or tags hold the query,
\* letter case apart, and the count it reports is their number
C21_FindReportsMatches ==
    (/\ pc = "find"
     /\ Len(handled) = 2
     /\ ~Contains(query, <<64>>)
     /\ failure # E_Store)
    => /\ failure = Null
       /\ {records[i].id : i \in 1..Len(records)} = IdsMatching(contacts, query)
       /\ Len(records) = Cardinality(IdsMatching(contacts, query))
-----------------------------------------------------------------------------
(* C22 *)

\* the contacts of the table that carry the id
OwnersOf(rows, contact_id) == {j \in 1..Len(rows) : rows[j].id = contact_id}

\* C22: in every state reached by /quick, /note, text messages, /skip, /edit
\* and imports each interaction is owned by exactly one contact of the table;
\* and a step that changes the interactions is the insert of /note or of the
\* pending text message, adds one row and names a contact the table held
\* before the step
C22_InteractionsOwned ==
    [][/\ \A i \in 1..Len(interactions') :
              Cardinality(OwnersOf(contacts', interactions'[i].contact_id)) = 1
       /\ interactions' # interactions
          => /\ contacts' = contacts
             /\ Len(interactions') = Len(interactions) + 1
             /\ SubSeq(interactions', 1, Len(interactions)) = interactions
             /\ OwnersOf(contacts, interactions'[Len(interactions')].contact_id) # {}
             /\ \/ pc = "message" /\ user_data # {}
                \/ handled' = <<"add_note", "select", "insert">>]_vars

\* two notes are stored, one for each of two contacts
C22_Witness ==
    /\ pc = "writes"
    /\ Len(interactions) = 2
    /\ Len(contacts) = 2
    /\ interactions[1].contact_id # interactions[2].contact_id

-----------------------------------------------------------------------------
(* C23 *)

\* the step is a run of handle_message whose text was stored as a note of the
\* pending contact
StoredPendingNote ==
    /\ Len(interactions') = Len(interactions) + 1
    /\ SubSeq(interactions', 1, Len(interactions)) = interactions
    /\ interactions'[Len(interactions')].contact_id \in user_data
    /\ interactions'[Len(interactions')].note = query

\* the calls a run of handle_message made
CallsOf(log) == {log[i] : i \in 1..Len(log)}

\* what C23 says of a run of handle_message: with the marker set the text
\* never reaches process_query, and when the insert returned exactly one
\* interaction was added, for the pending contact and with the text as note;
\* with no marker nothing is inserted and the text goes to process_query
RoutedByMarker ==
    IF user_data # {}
    THEN /\ "process_query" \notin CallsOf(handled')
         /\ "insert" \in CallsOf(handled') => StoredPendingNote
    ELSE /\ interactions' = interactions
         /\ "process_query" \in CallsOf(handled')

-----------------------------------------------------------------------------
(* C24 *)

\* C24: the marker is set only by a /quick whose insert succeeded, to the new
\* contact's id; it is cleared only by /skip or by the run of handle_message
\* that stored the pending note; a run of handle_message whose insert
\* succeeded returns with the marker cleared; one whose insert failed leaves
\* the marker and the store as they were
C24_MarkerLifecycle ==
    [][/\ (user_data' # user_data /\ user_data' # {})
          => /\ Len(contacts') = Len(contacts) + 1
             /\ user_data' = {contacts'[Len(contacts')].id}
       /\ (user_data' # user_data /\ user_data' = {})
          => \/ handled' = <<"skip_command">>
             \/ pc = "message" /\ interactions' # interactions
       /\ (pc = "message" /\ pc' = "writes" /\ user_data # {})
          => /\ interactions' # interactions => user_data' = {}
             /\ "insert raised" \in CallsOf(handled')
                => /\ user_data' = user_data
                   /\ interactions' = interactions
                   /\ contacts' = contacts]_vars
-----------------------------------------------------------------------------
(* C25 *)

\* the last call of batch_insert_contacts
LastImport == imports'[1]

\* a counter of the dictionary the call returned; one the dictionary does not
\* hold has counted nothing
Counted(key) == DictGet(LastImport.result, key, 0)

-----------------------------------------------------------------------------
(* C26 *)

\* the value is not empty and an earlier row of the table holds it in the column
HeldBefore(rows, i, col) ==
    Truthy(rows[i][col]) /\ \E k \in 1..(i - 1) : rows[k][col] = rows[i][col]

\* every contact of the list has an email or a telegram handle
AllIdentified(contact_list) ==
    \A i \in 1..Len(contact_list) :
        \/ Truthy(DictGet(contact_list[i], "email", Null))
        \/ Truthy(DictGet(contact_list[i], "telegram", Null))

\* C26: no row a call of batch_insert_contacts appends holds a non-empty
\* email or telegram handle that an earlier row holds, be that row older than
\* the call or appended by it; and a call that repeats the list of the call
\* before it, every contact of the list having an email or a telegram handle
\* and no store call having failed in either, leaves the table as it was and
\* counts every contact as a duplicate
C26_NoDuplicateInserted ==
    [][/\ \A i \in (Len(contacts) + 1)..Len(contacts') :
              ~HeldBefore(contacts', i, "email") /\ ~HeldBefore(contacts', i, "telegram")
       /\ (/\ imports # <<>>
           /\ imports[1].contact_list = LastImport.contact_list
           /\ AllIdentified(LastImport.contact_list)
           /\ ~imports[1].raised /\ imports[1].result.errors = 0
           /\ ~LastImport.raised)
          => /\ contacts' = contacts
             /\ Counted("imported") = 0
             /\ Counted("errors") = 0
             /\ Counted("duplicates") = Len(LastImport.contact_list)]_vars

\* a batch of two contacts, already imported, was imported again: both were
\* counted as duplicates
C26_Witness ==
    /\ imports # <<>>
    /\ Len(imports[1].contact_list) = 2
    /\ ~imports[1].raised
    /\ imports[1].result = [imported |-> 0, duplicates |-> 2, errors |-> 0]
    /\ Len(contacts) = 2
    /\ \A i \in 1..2 : contacts[i].name = imports[1].contact_list[i].name
    /\ contacts[1].name # contacts[2].name
-----------------------------------------------------------------------------
(* C27 *)

\* the update dispatched last is a message, new or edited
MessageUpdate ==
    /\ pc = "dispatch"
    /\ reqs # <<>>
    /\ reqs[1].kind \in {"message", "edited_message"}

\* C27: for a message update sent by a user who is not the admin exactly the
\* unauthorized handler runs, whose code calls neither the store nor the
\* generation service; for a message update sent by the admin the
\* unauthorized handler does not run
C27_StrangersStopped ==
    MessageUpdate
    => /\ (reqs[1].from_user # {} /\ reqs[1].from_user # {ADMIN_ID})
          => /\ handled = <<"unauthorized_handler">>
             /\ \A i \in 1..Len(handled) :
                    MayCall(handled[i]) \cap {"select", "insert", "update",
                                              "generate_content"} = {}
       /\ reqs[1].from_user = {ADMIN_ID}
          => \A i \in 1..Len(handled) : handled[i] # "unauthorized_handler"

\* someone who is not the admin sent /quick with a contact: the unauthorized
\* handler took it
C27_Witness ==
    /\ MessageUpdate
    /\ reqs[1].from_user = {ADMIN_ID + 1}
    /\ reqs[1].text = <<47, 113, 117, 105, 99, 107, 32, 1048, 1074, 1072, 1085, 44, 32, 65, 99, 109, 101>>
    /\ handled = <<"unauthorized_handler">>

=============================================================================
